---- MODULE Spec2Model ----
(***************************************************************************)
(* Block production and Hive proof validation of the Ring node:            *)
(* src/src/miner.cpp (BlockAssembler, MinerThread, BusyDwarves, CheckBin)  *)
(* and src/src/pow.cpp (GetNextHiveWorkRequired, CheckHiveProof).          *)
(***************************************************************************)
EXTENDS Integers, Sequences, FiniteSets, TLC

(***************************************************************************)
(* Bounds of the model.                                                    *)
(***************************************************************************)
\* Largest number of transactions in the mempool.
MaxTx == 2
\* Largest height the modelled chain grows to.
MaxHeight == 5
\* Amounts the donation rule is tabulated for.
MaxAmount == 40
\* PoW miner threads that meter hashes, scans each of them makes, and the
\* last reading of the millisecond clock.
NumMiners == 2
\* Calls of IncrementExtraNonce one miner thread makes.
MaxCalls == 3
MaxMeterRounds == 2
MaxClock == 6000
\* The lock model: the CheckBin workers of a Hive cycle.
LockBins == 2
\* The entries of the long mempool beyond MAX_CONSECUTIVE_FAILURES.
FailTail == 8
\* The polling of the abort flags: the dwarves a worker has left on either
\* side of a poll.
PollTail == 4
\* Consensus::Params::maxConsecutiveHiveBlocks, scaled down.
maxConsecutiveHiveBlocks == 2
\* blocks MinerThread builds on one tip
MaxExtraNonce == 2
\* The scan loop of MinerThread: the nonce at which it gives up (0xffff0000
\* in the code), and the latest time on the clock.
MaxNonce == 2
MaxTime == 2
\* ScanHash: the number of nonces it is started before an interruption point.
MaxScan == 3
\* The binning of BusyDwarves: the DCTs of a wallet, the dwarves of a DCT, and
\* the cores of the machine.
MaxDcts == 3
MaxDwarves == 3
BinCores == 4

(***************************************************************************)
(* Program constants.                                                      *)
(***************************************************************************)
\* consensus/consensus.h
WITNESS_SCALE_FACTOR == 4
MAX_BLOCK_WEIGHT == 4000000
MAX_BLOCK_SIGOPS_COST == 80000
\* policy/policy.h: satoshis per 1000 bytes
DEFAULT_BLOCK_MIN_TX_FEE == 1000
\* resetBlock: the coinbase reserve
CoinbaseReserveWeight == 4000
CoinbaseReserveSigOps == 400
\* addPackageTxs
MAX_CONSECUTIVE_FAILURES == 1000

\* CheckHiveProof: the least length of the proof script
MinProofScriptSize == 144

\* Consensus::Params (chainparams), scaled down.
lastInitialDistributionHeight == 1
slowStartBlocks == 1
minHiveCheckBlock == 1
hiveDifficultyWindow == 2
hiveBlockSpacingTarget == 2
powLimitHive == 48
powLimit == 12582912
powLimitInitialDistribution == 805306367
nPowTargetSpacing == 1
\* GetNextWorkRequired: int64_t nPastBlocks = 24
nPastBlocks == 24
\* arith_uint256 wraps at 2^256; scaled down to 2^30, in two halves of 15 bits.
ArithHalf == 32768
ArithRange == ArithHalf * ArithHalf
dwarfGestationBlocks == 2
dwarfLifespanBlocks == 2
dwarfCost == 10
communityContribFactor == 10
nRNGBlockSpacing == 3

\* script/script.h opcodes
OP_FALSE == 0
OP_PUSHDATA1 == 76
OP_TRUE == 81
OP_RETURN == 106
OP_DWARF == 193

\* The range of the modelled hash function: hashes are in 0..HashSpace-1.
HashSpace == 64
GetBlockSubsidyHive == 50
HiveCheckPollInterval == 1000
GetNumCores == 3
HiveMinerMaxWeight == 15000

\* A CScript pointer that is null.
nullptr == <<-1>>

Max(a, b) == IF a >= b THEN a ELSE b
Min(a, b) == IF a <= b THEN a ELSE b

RECURSIVE SumOver(_, _)
SumOver(f, S) ==
    IF S = {} THEN 0
    ELSE LET x == CHOOSE y \in S : TRUE IN f[x] + SumOver(f, S \ {x})

(***************************************************************************)
(* The mempool (query surface only).  An entry carries the transaction's   *)
(* virtual size, weight, fee, sigops cost, finality, witness flag, DCT     *)
(* flag and its in-mempool parents.                                        *)
(***************************************************************************)
TxKinds ==
    { [size |-> 1000, weight |-> 4000, fee |-> 5000, sigops |-> 400,
       final |-> TRUE, witness |-> FALSE, dct |-> FALSE],
      [size |-> 1000, weight |-> 3997, fee |-> 6000, sigops |-> 40000,
       final |-> TRUE, witness |-> TRUE, dct |-> FALSE],
      [size |-> 700, weight |-> 2798, fee |-> 3000, sigops |-> 400,
       final |-> TRUE, witness |-> FALSE, dct |-> TRUE],
      [size |-> 1000, weight |-> 4000, fee |-> 500, sigops |-> 0,
       final |-> FALSE, witness |-> FALSE, dct |-> FALSE] }

\* The nBlockMaxWeight options a caller may pass (-blockmaxweight).
MaxWeightOptions == {0, 11000}

VARIABLES
    \* the mempool, its ancestor_score index, and the assembler's options
    mempool, mapTxByAncestorScore, nBlockMaxWeight,
    \* BlockAssembler fields
    asmPc, hiveProofScript, popProofScript,
    inBlock, vtx, nBlockWeight, nBlockSigOpsCost, nBlockTx, nFees,
    fIncludeWitness, fIncludeDCTs,
    \* addPackageTxs locals
    mi, mapModifiedTx, failedTx, nConsecutiveFailed,
    \* history: the assembler object served a Hive or Pop call before
    usedForHivePop,
    \* how the last call of CreateNewBlock ended ("none": it has not ended)
    createResult,
    \* chainActive / mapBlockIndex: the block index entries by height + 1
    chain,
    \* the DCTs on the chain with their outputs; pcoinsTip holds the unspent ones
    dctDb,
    \* the last block handed to CheckHiveProof and what the call did
    checkedBlock, checkResult

asmVars == <<mempool, mapTxByAncestorScore, nBlockMaxWeight, asmPc, hiveProofScript, popProofScript,
             inBlock, vtx, nBlockWeight, nBlockSigOpsCost, nBlockTx, nFees,
             fIncludeWitness, fIncludeDCTs, mi, mapModifiedTx, failedTx,
             nConsecutiveFailed, usedForHivePop, createResult>>

chainVars == <<chain, dctDb, checkedBlock, checkResult>>

VARIABLES
    \* DwarfMaster: height; BusyDwarves: its position, pindexPrev, and the
    \* node's -hiveearlyout and -hivecheckthreads
    dwarfMasterHeight, hivePc, pindexPrevHive, useEarlyAbortThread, hivecheckthreads,
    \* the bins and the worker thread of each bin
    dwarfBins, binThreads,
    \* the atomics, the mutex (0: free, else the holder) and the solution record
    solutionFound, earlyAbort, cs_solution_vars, solvingRange, solvingDwarf,
    \* AbortWatchThread's position
    abortPc,
    \* history: the writes of the solution record in this cycle
    written,
    \* BusyDwarves: hiveProofScript and the block built
    minerProofScript, hiveBlock

hiveVars == <<dwarfMasterHeight, hivePc, pindexPrevHive, useEarlyAbortThread, hivecheckthreads,
              dwarfBins, binThreads, solutionFound, earlyAbort, cs_solution_vars,
              solvingRange, solvingDwarf, abortPc, written, minerProofScript, hiveBlock>>

VARIABLES
    \* MinerThread: its position, nExtraNonce, the static hashPrevBlock of
    \* IncrementExtraNonce, pindexPrev, the block and MineBlocksOnDemand()
    minerThread

vars == <<asmVars, chainVars, hiveVars, minerThread>>

(***************************************************************************)
(* Byte strings, scripts and the primitives the Hive proof is built from.  *)
(***************************************************************************)
\* C++ indexing into a byte vector: s[k], and the range [a, b).
At(s, k) == s[k + 1]
Slice(s, a, b) == SubSeq(s, a + 1, b)

Repeat(c, n) == [i \in 1..n |-> c]

\* WriteLE32 / ReadLE32 (crypto/common.h)
WriteLE32(x) ==
    << x % 256, (x \div 256) % 256, (x \div 65536) % 256, (x \div 16777216) % 256 >>
ReadLE32(s, k) ==
    At(s, k) + 256 * At(s, k + 1) + 65536 * At(s, k + 2) + 16777216 * At(s, k + 3)

\* CScript::operator<<(const std::vector<unsigned char>&): a length-prefixed push.
PushData(b) ==
    IF Len(b) < OP_PUSHDATA1 THEN <<Len(b)>> \o b ELSE <<OP_PUSHDATA1, Len(b)>> \o b

\* std::to_string of a non-negative integer: its decimal digits in ASCII.
RECURSIVE to_string(_)
to_string(n) == IF n < 10 THEN <<48 + n>> ELSE to_string(n \div 10) \o <<48 + (n % 10)>>

\* A hex digit in ASCII, and the value of an ASCII hex digit (-1: none).
HexDigit(d) == IF d < 10 THEN 48 + d ELSE 87 + d
HexValue(c) ==
    IF c \in 48..57 THEN c - 48
    ELSE IF c \in 97..102 THEN c - 87
    ELSE IF c \in 65..70 THEN c - 55
    ELSE -1

\* uint256::GetHex of a small value: 64 hex digits.
GetHex(n) == Repeat(48, 62) \o <<HexDigit((n \div 16) % 16), HexDigit(n % 16)>>

\* uint256S: the value of the leading hex digits of the string (values that
\* do not fit 16 bits are all taken for 65536).
uint256S(s) ==
    LET stops == { i \in 1..Len(s) : HexValue(s[i]) < 0 }
        n == IF stops = {} THEN Len(s)
             ELSE (CHOOSE i \in stops : \A j \in stops : i <= j) - 1
        digit(k) == IF n - k >= 1 THEN HexValue(s[n - k]) ELSE 0
    IN  IF \E i \in 1..(n - 4) : HexValue(s[i]) # 0 THEN 65536
        ELSE digit(0) + 16 * digit(1) + 256 * digit(2) + 4096 * digit(3)

\* A hash of a byte string: every byte counts, with a weight that depends on
\* its position from the end, so that strings that differ in one byte or in
\* the order of two neighbouring bytes hash differently before the reduction.
RECURSIVE HashRange(_, _, _)
HashRange(s, lo, hi) ==
    IF lo > hi THEN 0
    ELSE IF lo = hi THEN s[lo] * ((((Len(s) - lo) * (Len(s) - lo + 3)) % 17) + 1)
    ELSE LET mid == (lo + hi) \div 2
         IN  HashRange(s, lo, mid) + HashRange(s, mid + 1, hi)
HashBytes(s) == (HashRange(s, 1, Len(s)) + 7 * Len(s)) % 1009

\* MinotaurHashArbitrary
MinotaurHashArbitrary(s) == HashBytes(s) % HashSpace

\* CHashWriter << deterministicRandString; GetHash()
MessageHash(s) == (HashBytes(s) + 5) % 251

\* arith_uint256::GetCompact / SetCompact (sign and overflow flags left out).
RECURSIVE ByteLen(_)
ByteLen(n) == IF n = 0 THEN 0 ELSE 1 + ByteLen(n \div 256)
Pow256(k) == IF k = 0 THEN 1 ELSE IF k = 1 THEN 256 ELSE IF k = 2 THEN 65536 ELSE 16777216
GetCompact(n) ==
    LET nSize == ByteLen(n)
        c == IF nSize <= 3 THEN n * Pow256(3 - nSize) ELSE n \div Pow256(nSize - 3)
    IN  IF c >= 8388608 THEN (c \div 256) + (nSize + 1) * 16777216
        ELSE c + nSize * 16777216
SetCompact(nCompact) ==
    LET nSize == nCompact \div 16777216
        nWord == nCompact % 8388608
    IN  IF nSize <= 3 THEN nWord \div Pow256(3 - nSize) ELSE nWord * Pow256(nSize - 3)

\* Keys: CKey::SignCompact gives 65 bytes (header, then r and s, which stand
\* for the key and the signed hash); CPubKey::RecoverCompact recovers the
\* signer's public key from a signature over the same hash, and an unrelated
\* key (NobodysKey) from a signature over another hash.
Keys == {1, 2}
NobodysKey == 0
SignCompact(key, mhash) == <<31>> \o Repeat(key, 32) \o Repeat(mhash, 32)
RecoverCompact(mhash, sig) ==
    IF Len(sig) # 65 \/ sig[1] \notin 27..34 THEN [ok |-> FALSE, pubkey |-> NobodysKey]
    ELSE IF sig[34] = mhash THEN [ok |-> TRUE, pubkey |-> sig[2]]
    ELSE [ok |-> TRUE, pubkey |-> NobodysKey]
\* CPubKey::GetID
GetID(pubkey) == 100 + pubkey

\* Destinations and the scripts that pay them.
GetScriptForDestination(dest) == [type |-> dest.type, hash |-> dest.hash]
KeyHashDestination(key) == [type |-> "pubkeyhash", hash |-> GetID(key)]
ScriptHashDestination == [type |-> "scripthash", hash |-> 500]
NonStandardScript == [type |-> "nonstandard", hash |-> 0]
\* ExtractDestination
ExtractDestination(script) ==
    IF script.type \in {"pubkeyhash", "scripthash"}
    THEN [ok |-> TRUE, dest |-> [type |-> script.type, hash |-> script.hash]]
    ELSE [ok |-> FALSE, dest |-> [type |-> "none", hash |-> 0]]
\* The community fund and dwarf creation addresses of the consensus parameters.
scriptPubKeyCF == [type |-> "scripthash", hash |-> 900]
scriptPubKeyBCF == [type |-> "scripthash", hash |-> 901]
\* A DCT's output 0: pays the dwarf creation address and names the reward script.
DCTScript(rewardScript) == [type |-> "dct", hash |-> 901, reward |-> rewardScript]
\* CScript::IsDCTScript
IsDCTScript(script) == script.type = "dct"

(***************************************************************************)
(* The chain: block index entries, Hive retargeting.                       *)
(***************************************************************************)
\* The hash of the block at height h, and a hash mapBlockIndex does not know.
UnknownHash == -1
BlockHashAt(h) == h
TipHeight == Len(chain) - 1
\* mapBlockIndex[hash]: the height of the entry, -1 for no entry
LookupBlockIndex(hash) == IF hash \in 0..TipHeight THEN hash ELSE -1
IndexAt(h) == chain[h + 1]
IsHiveMined(h) == IndexAt(h).type = "hive"
IsPopMined(h) == IndexAt(h).type = "pop"

\* GetDeterministicRandString(pindexPrev): a string fixed by the chain up to pindexPrev.
GetDeterministicRandString(h) == to_string(17 * h + 3)

\* nBits of PoW and Pop blocks (not read by the Hive rules).
PowBits == GetCompact(powLimit)

\* GetNextHiveWorkRequired: walk back from pindexLast (at height h).
RECURSIVE HiveWindowWalk(_, _, _, _)
HiveWindowWalk(h, sum, hiveBlockCount, totalBlockCount) ==
    IF hiveBlockCount < hiveDifficultyWindow /\ h >= 1 /\ h >= minHiveCheckBlock
    THEN IF IsHiveMined(h)
         THEN HiveWindowWalk(h - 1, sum + SetCompact(IndexAt(h).nBits),
                             hiveBlockCount + 1, totalBlockCount + 1)
         ELSE HiveWindowWalk(h - 1, sum, hiveBlockCount, totalBlockCount + 1)
    ELSE [sum |-> sum, hiveBlockCount |-> hiveBlockCount, totalBlockCount |-> totalBlockCount]

GetNextHiveWorkRequired_NoLimit(h) ==
    LET w == HiveWindowWalk(h, 0, 0, 0)
    IN  IF w.hiveBlockCount = 0 THEN GetCompact(powLimitHive)
        ELSE GetCompact(((w.sum \div w.hiveBlockCount) * w.totalBlockCount)
                            \div (w.hiveBlockCount * hiveBlockSpacingTarget))
GetNextHiveWorkRequired(h) ==
    LET w == HiveWindowWalk(h, 0, 0, 0)
    IN  IF w.hiveBlockCount = 0 THEN GetCompact(powLimitHive)
        ELSE LET avg == w.sum \div w.hiveBlockCount
                 targetTotalBlockCount == w.hiveBlockCount * hiveBlockSpacingTarget
                 t == (avg * w.totalBlockCount) \div targetTotalBlockCount
             IN  GetCompact(IF t > powLimitHive THEN powLimitHive ELSE t)

\* arith_uint256::operator*= : the product, wrapped to the width.
MulWrap(a, b) ==
    ((((a \div ArithHalf) * b) % ArithHalf) * ArithHalf + (a % ArithHalf) * b) % ArithRange

\* while (pindex->GetBlockHeader().IsHiveMined(params)) { assert(pindex->pprev);
\* pindex = pindex->pprev; }: the height reached, -1 when the assertion fails.
RECURSIVE SkipHiveMined(_)
SkipHiveMined(h) ==
    IF ~IsHiveMined(h) THEN h
    ELSE IF h = 0 THEN -1
    ELSE SkipHiveMined(h - 1)

\* The loop over the last nPastBlocks blocks that are not Hive blocks, from
\* iteration i with pindex at height h: the moving average and the height
\* pindex is left at (ok: no assertion has failed).
RECURSIVE PastTargetWalk(_, _, _)
PastTargetWalk(h, i, bnPastTargetAvg) ==
    IF i > nPastBlocks THEN [ok |-> TRUE, pindex |-> h, bnPastTargetAvg |-> bnPastTargetAvg]
    ELSE LET pindex == SkipHiveMined(h)
         IN  IF pindex < 1 THEN [ok |-> FALSE, pindex |-> 0, bnPastTargetAvg |-> 0]
             ELSE PastTargetWalk(pindex - 1, i + 1,
                      (bnPastTargetAvg + SetCompact(IndexAt(pindex).nBits) \div nPastBlocks)
                          % ArithRange)

\* if (nActualTimespan < nTargetTimespan/3) ...; if (nActualTimespan > nTargetTimespan*3) ...
ClampTimespan_NoUpperLimit(nActualTimespan, nTargetTimespan) ==
    IF nActualTimespan < nTargetTimespan \div 3 THEN nTargetTimespan \div 3
    ELSE nActualTimespan
ClampTimespan(nActualTimespan, nTargetTimespan) ==
    IF nActualTimespan < nTargetTimespan \div 3 THEN nTargetTimespan \div 3
    ELSE IF nActualTimespan > nTargetTimespan * 3 THEN nTargetTimespan * 3
    ELSE nActualTimespan

\* GetNextWorkRequired's moving average and clamped timespan for pindexLast
\* at height h, and the target before the limit and the compact form.
PastTargets(h) == PastTargetWalk(SkipHiveMined(h), 1, 0)
RetargetTimespan(h) ==
    ClampTimespan(IndexAt(SkipHiveMined(h)).nTime - IndexAt(PastTargets(h).pindex).nTime,
                  nPastBlocks * nPowTargetSpacing)
Retargeted(h) ==
    MulWrap(PastTargets(h).bnPastTargetAvg, RetargetTimespan(h))
        \div (nPastBlocks * nPowTargetSpacing)

\* A failed assert ends the process: no nBits is returned.
AssertionFailed == -1

\* GetNextWorkRequired(pindexLast, pblock, params), pindexLast at height h.
GetNextWorkRequired(h, nBlockTime, fPowAllowMinDifficultyBlocks) ==
    IF h < lastInitialDistributionHeight THEN GetCompact(powLimitInitialDistribution)
    ELSE IF fPowAllowMinDifficultyBlocks
            /\ nBlockTime > IndexAt(h).nTime + nPowTargetSpacing * 10
         THEN GetCompact(powLimit)
    ELSE IF SkipHiveMined(h) = -1 \/ ~PastTargets(h).ok THEN AssertionFailed
    ELSE GetCompact(IF Retargeted(h) > powLimit THEN powLimit ELSE Retargeted(h))

\* The dwarf hash of CheckBin and CheckHiveProof.
DwarfHash(deterministicRandString, txidStr, dwarfNonce) ==
    MinotaurHashArbitrary(
        GetHex(MinotaurHashArbitrary(deterministicRandString \o txidStr \o to_string(dwarfNonce))))

\* BusyDwarves: the Hive blocks at and below height h down to the last PoW
\* block, Pop blocks in between passed over.
RECURSIVE HiveBlocksSincePowThroughPop(_)
HiveBlocksSincePowThroughPop(h) ==
    IF IsHiveMined(h) THEN 1 + HiveBlocksSincePowThroughPop(h - 1)
    ELSE IF IsPopMined(h) THEN HiveBlocksSincePowThroughPop(h - 1)
    ELSE 0

\* CheckHiveProof: the Hive blocks at and below height h down to the first
\* block that is not one.
RECURSIVE HiveBlocksSincePow(_)
HiveBlocksSincePow(h) ==
    IF IsHiveMined(h) THEN 1 + HiveBlocksSincePow(h - 1) ELSE 0

(***************************************************************************)
(* DCTs: the transactions on the chain and the UTXO set.                   *)
(***************************************************************************)
\* The txid string of DCT number n.
TxidStr(n) == GetHex(n)

\* pcoinsTip->GetCoin(COutPoint(txid, n), coin)
GetCoin(txid, n) ==
    IF txid \in DOMAIN dctDb /\ n \in dctDb[txid].unspent
    THEN [ok |-> TRUE, out |-> dctDb[txid].vout[n + 1], nHeight |-> dctDb[txid].height]
    ELSE [ok |-> FALSE, out |-> [nValue |-> 0, scriptPubKey |-> NonStandardScript], nHeight |-> 0]

\* GetTxByHashAndHeight: the transaction, when it is in the block at that height.
GetTxByHashAndHeight(txid, height) ==
    IF txid \in DOMAIN dctDb /\ dctDb[txid].height = height
    THEN [ok |-> TRUE, vout |-> dctDb[txid].vout, nHeight |-> dctDb[txid].height]
    ELSE [ok |-> FALSE, vout |-> <<>>, nHeight |-> 0]

\* A DCT of `value` for the dwarves whose reward goes to `key`, at `height`,
\* with a community fund output of `donation` when that is not 0.
MakeDCT(height, value, key, donation, unspent) ==
    [height |-> height,
     vout |-> IF donation = 0
              THEN << [nValue |-> value,
                       scriptPubKey |-> DCTScript(GetScriptForDestination(KeyHashDestination(key)))] >>
              ELSE << [nValue |-> value,
                       scriptPubKey |-> DCTScript(GetScriptForDestination(KeyHashDestination(key)))],
                      [nValue |-> donation, scriptPubKey |-> scriptPubKeyCF] >>,
     unspent |-> unspent]

\* Two DCTs: one without and one with a community fund contribution.
HonestDCTs ==
    (1 :> MakeDCT(0, 3 * dwarfCost, 1, 0, {0}))
    @@ (2 :> MakeDCT(1, 3 * dwarfCost - 3, 2, 3, {0, 1}))
\* The same DCTs when the UTXO set does not have them (as in a reindex), or
\* has only output 0 of the second.
DrilledDCTs ==
    (1 :> MakeDCT(0, 3 * dwarfCost, 1, 0, {}))
    @@ (2 :> MakeDCT(1, 3 * dwarfCost - 3, 2, 3, {0}))
\* DCTs that pay for less than one dwarf without their donation, and DCTs
\* whose donation is the rounded-down tenth of the total, or more than that.
SmallDCTs ==
    (1 :> MakeDCT(0, dwarfCost - 1, 1, 0, {0}))
    @@ (2 :> MakeDCT(1, dwarfCost - 1, 2, 1, {0, 1}))
RoundedDCTs ==
    (1 :> MakeDCT(0, 3 * dwarfCost - 3, 1, 2, {0, 1}))
    @@ (2 :> MakeDCT(1, 3 * dwarfCost - 3, 2, 4, {0}))
DCTWorlds == {HonestDCTs, DrilledDCTs, SmallDCTs, RoundedDCTs}

\* The chain at the start: the genesis block and one PoW block, which hold the DCTs.
InitialChain == << [type |-> "pow", nBits |-> PowBits], [type |-> "pow", nBits |-> PowBits] >>
\* No block has been handed to CheckHiveProof yet.
NoBlock == [hashPrevBlock |-> UnknownHash, vtx |-> <<>>]

\* uint256 hashMerkleRoot of a block whose root was never computed, and
\* BlockMerkleRoot (consensus/merkle.cpp): a hash of the transactions in
\* their order, without collisions.
NullMerkleRoot == <<"null", <<>>>>
BlockMerkleRoot(txs) == <<"merkle", txs>>

(***************************************************************************)
(* CheckHiveProof (pow.cpp).  A block is [hashPrevBlock, vtx]; a           *)
(* transaction is [coinbase, dct, vout]; an output is [nValue,             *)
(* scriptPubKey]; a script is either raw bytes or a payment script.        *)
(***************************************************************************)
RawScript(bytes) == [type |-> "raw", bytes |-> bytes]
\* CScript::size()
ScriptSize(script) ==
    IF script.type = "raw" THEN Len(script.bytes)
    ELSE IF script.type = "pubkeyhash" THEN 25
    ELSE IF script.type = "scripthash" THEN 23
    ELSE 0

IsCoinBase(tx) == tx.coinbase

\* if (hiveBlocksSincePow >= consensusParams.maxConsecutiveHiveBlocks)
TooManyHiveBlocks_OffByOne(hiveBlocksSincePow) ==
    hiveBlocksSincePow > maxConsecutiveHiveBlocks
TooManyHiveBlocks(hiveBlocksSincePow) ==
    hiveBlocksSincePow >= maxConsecutiveHiveBlocks

\* if (dwarfHash >= dwarfHashTarget)
MissesHashTarget(dwarfHash, dwarfHashTarget) ==
    dwarfHash >= dwarfHashTarget

\* if (pubkey.GetID() != *keyID)
SignatureMismatch_Ignored(pubkey, keyID) == FALSE
SignatureMismatch(pubkey, keyID) == GetID(pubkey) # keyID

\* CAmount expectedDonationAmount = (dctValue + donationAmount) / communityContribFactor;
\* if (donationAmount != expectedDonationAmount)
DonationMismatch_Exact(dctValue, donationAmount) ==
    donationAmount * (communityContribFactor - 1) # dctValue
DonationMismatch(dctValue, donationAmount) ==
    donationAmount # (dctValue + donationAmount) \div communityContribFactor

\* if (dwarfNonce >= dwarfCount)
TooFewDwarves_OffByOne(dwarfNonce, dwarfCount) == dwarfNonce > dwarfCount
TooFewDwarves(dwarfNonce, dwarfCount) == dwarfNonce >= dwarfCount

\* The fields CheckHiveProof decodes from the proof script.
ProofNonce(proof) == ReadLE32(proof, 3)
ProofClaimedHeight(proof) == ReadLE32(proof, 8)
ProofCommunityContrib(proof) == At(proof, 12) = OP_TRUE
ProofTxidStr(proof) == Slice(proof, 14, 14 + 64)
ProofMessageSig_FromSizeByte(proof) == Slice(proof, 78, 78 + 65)
ProofMessageSig(proof) == Slice(proof, 79, 79 + 65)

\* The part of CheckHiveProof from "Grab the DCT utxo" to the end.
CheckHiveProofDCT(blockHeight, dwarfNonce, dctClaimedHeight, communityContrib, txidStr, rewardDestination) ==
    LET coin0 == GetCoin(uint256S(txidStr), 0)
        drill == GetTxByHashAndHeight(uint256S(txidStr), dctClaimedHeight)
        dctFoundHeight == IF coin0.ok THEN coin0.nHeight ELSE drill.nHeight
        dctValue0 == IF coin0.ok THEN coin0.out.nValue ELSE drill.vout[1].nValue
        dctScriptPubKey ==
            IF coin0.ok THEN coin0.out.scriptPubKey ELSE drill.vout[1].scriptPubKey
        coin1 == GetCoin(uint256S(txidStr), 1)
        \* no reference to the DCT itself is held when both outputs came from the UTXO set
        fromUtxo == coin0.ok /\ coin1.ok
        donationAmount == IF fromUtxo THEN coin1.out.nValue ELSE drill.vout[2].nValue
        contribMissing ==
            IF fromUtxo THEN coin1.out.scriptPubKey # scriptPubKeyCF
            ELSE \/ ~drill.ok
                 \/ Len(drill.vout) < 2
                 \/ drill.vout[2].scriptPubKey # scriptPubKeyCF
        dctValue == IF communityContrib THEN dctValue0 + donationAmount ELSE dctValue0
        dctDepth == blockHeight - dctFoundHeight
    IN  IF ~coin0.ok /\ ~drill.ok THEN "false"
        ELSE IF communityContrib /\ contribMissing THEN "false"
        ELSE IF communityContrib /\ DonationMismatch(dctValue0, donationAmount) THEN "false"
        ELSE IF dctFoundHeight # dctClaimedHeight THEN "false"
        ELSE IF dctDepth < dwarfGestationBlocks THEN "false"
        ELSE IF dctDepth > dwarfGestationBlocks + dwarfLifespanBlocks THEN "false"
        ELSE IF ~IsDCTScript(dctScriptPubKey) \/ dctScriptPubKey.hash # scriptPubKeyBCF.hash
             THEN "false"
        ELSE IF ~ExtractDestination(dctScriptPubKey.reward).ok THEN "false"
        ELSE IF rewardDestination # ExtractDestination(dctScriptPubKey.reward).dest THEN "false"
        ELSE IF dctValue < dwarfCost THEN "false"
        ELSE IF TooFewDwarves(dwarfNonce, dctValue \div dwarfCost) THEN "false"
        ELSE "true"

\* The part of CheckHiveProof that reads the coinbase transaction.
CheckHiveProofCoinbase(txCoinbase, pindexPrev) ==
    IF ~IsCoinBase(txCoinbase) THEN "false"
    ELSE IF Len(txCoinbase.vout) < 2 \/ Len(txCoinbase.vout) > 3 THEN "false"
    ELSE IF ScriptSize(txCoinbase.vout[1].scriptPubKey) < MinProofScriptSize THEN "false"
    ELSE
    LET proof == txCoinbase.vout[1].scriptPubKey.bytes
        dwarfNonce == ProofNonce(proof)
        dctClaimedHeight == ProofClaimedHeight(proof)
        communityContrib == ProofCommunityContrib(proof)
        txidStr == ProofTxidStr(proof)
        deterministicRandString == GetDeterministicRandString(pindexPrev)
        dwarfHashTarget == SetCompact(GetNextHiveWorkRequired(pindexPrev))
        dwarfHash == DwarfHash(deterministicRandString, txidStr, dwarfNonce)
        messageSig == ProofMessageSig(proof)
        reward == ExtractDestination(txCoinbase.vout[2].scriptPubKey)
        recovered == RecoverCompact(MessageHash(deterministicRandString), messageSig)
    IN  IF At(proof, 0) # OP_RETURN \/ At(proof, 1) # OP_DWARF THEN "false"
        ELSE IF MissesHashTarget(dwarfHash, dwarfHashTarget) THEN "false"
        ELSE IF ~reward.ok THEN "false"
        ELSE IF reward.dest.type # "pubkeyhash" THEN "false"
        ELSE IF ~recovered.ok THEN "false"
        ELSE IF SignatureMismatch(recovered.pubkey, reward.dest.hash) THEN "false"
        ELSE CheckHiveProofDCT(pindexPrev + 1, dwarfNonce, dctClaimedHeight,
                               communityContrib, txidStr, reward.dest)

\* CheckHiveProof: "true", "false", or "undefined" where the code reads
\* through a null block index pointer or past the end of an empty vtx.
CheckHiveProof(pblock) ==
    LET pindexPrev == LookupBlockIndex(pblock.hashPrevBlock)
        blockHeight == pindexPrev + 1
    IN  IF pindexPrev = -1 THEN "undefined"
        ELSE IF blockHeight < lastInitialDistributionHeight + slowStartBlocks THEN "false"
        ELSE IF TooManyHiveBlocks(HiveBlocksSincePow(pindexPrev)) THEN "false"
        ELSE IF \E i \in 2..Len(pblock.vtx) : pblock.vtx[i].dct THEN "false"
        ELSE IF Len(pblock.vtx) = 0 THEN "undefined"
        ELSE CheckHiveProofCoinbase(pblock.vtx[1], pindexPrev)

\* What a call can do: its result, or for undefined behaviour either a crash
\* on the invalid read or a return of false.
CheckHiveProofOutcomes(pblock) ==
    LET result == CheckHiveProof(pblock)
    IN  IF result = "undefined" THEN {"invalid_read", "false"} ELSE {result}

(***************************************************************************)
(* Mempool queries.                                                        *)
(***************************************************************************)
RECURSIVE CalculateMemPoolAncestors(_, _)
CalculateMemPoolAncestors(mp, t) ==
    mp[t].parents \cup UNION { CalculateMemPoolAncestors(mp, p) : p \in mp[t].parents }

\* CalculateDescendants includes the entry itself.
CalculateDescendants(mp, t) ==
    {t} \cup { d \in DOMAIN mp : t \in CalculateMemPoolAncestors(mp, d) }

GetSizeWithAncestors(mp, t) == mp[t].nSizeWithAncestors
GetModFeesWithAncestors(mp, t) == mp[t].nModFeesWithAncestors
GetSigOpCostWithAncestors(mp, t) == mp[t].nSigOpCostWithAncestors

\* CTxMemPoolModifiedEntry(iter): a fresh modified entry copies the cached aggregates.
CTxMemPoolModifiedEntry(mp, t) ==
    [iter |-> t,
     nSizeWithAncestors |-> GetSizeWithAncestors(mp, t),
     nModFeesWithAncestors |-> GetModFeesWithAncestors(mp, t),
     nSigOpCostWithAncestors |-> GetSigOpCostWithAncestors(mp, t)]

\* Mutant: the worst ancestor feerate comes first.
CompareTxMemPoolEntryByAncestorFee_Ascending(a, b) ==
    LET f1 == a.nModFeesWithAncestors * b.nSizeWithAncestors
        f2 == a.nSizeWithAncestors * b.nModFeesWithAncestors
    IN  IF f1 = f2 THEN a.iter < b.iter ELSE f1 < f2
\* Ancestor-feerate order, cross-multiplied; ties are broken by the txid.
CompareTxMemPoolEntryByAncestorFee(a, b) ==
    LET f1 == a.nModFeesWithAncestors * b.nSizeWithAncestors
        f2 == a.nSizeWithAncestors * b.nModFeesWithAncestors
    IN  IF f1 = f2 THEN a.iter < b.iter ELSE f1 > f2

\* mempool.mapTx.get<ancestor_score>(): the entries, best first.
AncestorScoreIndex(mp) ==
    LET e(t) == CTxMemPoolModifiedEntry(mp, t)
        rank(t) == 1 + Cardinality({ u \in DOMAIN mp :
                                       CompareTxMemPoolEntryByAncestorFee(e(u), e(t)) })
    IN  [i \in 1..Len(mp) |-> CHOOSE t \in DOMAIN mp : rank(t) = i]

\* CFeeRate::GetFee
GetFee(rate, size) ==
    LET nFee == (rate * size) \div 1000
    IN  IF nFee = 0 /\ size # 0 /\ rate > 0 THEN 1 ELSE nFee

\* Parents precede their children: the mempool is a DAG.
ParentChoices(n) ==
    { p \in [1..n -> SUBSET (1..n)] : \A i \in 1..n : p[i] \subseteq 1..(i - 1) }

\* The entries of a mempool, before the cached ancestor aggregates are set.
RawMempoolsOfSize(n) ==
    { [i \in 1..n |-> [size |-> k[i].size, weight |-> k[i].weight,
                       fee |-> k[i].fee, sigops |-> k[i].sigops,
                       final |-> k[i].final, witness |-> k[i].witness,
                       dct |-> k[i].dct, parents |-> p[i]]] :
        k \in [1..n -> TxKinds], p \in ParentChoices(n) }

\* CTxMemPoolEntry caches the aggregates over the entry and its ancestors.
WithAncestorState(mp) ==
    [t \in DOMAIN mp |->
        [size |-> mp[t].size, weight |-> mp[t].weight, fee |-> mp[t].fee,
         sigops |-> mp[t].sigops, final |-> mp[t].final, witness |-> mp[t].witness,
         dct |-> mp[t].dct, parents |-> mp[t].parents,
         nSizeWithAncestors |-> mp[t].size
             + SumOver([u \in DOMAIN mp |-> mp[u].size], CalculateMemPoolAncestors(mp, t)),
         nModFeesWithAncestors |-> mp[t].fee
             + SumOver([u \in DOMAIN mp |-> mp[u].fee], CalculateMemPoolAncestors(mp, t)),
         nSigOpCostWithAncestors |-> mp[t].sigops
             + SumOver([u \in DOMAIN mp |-> mp[u].sigops], CalculateMemPoolAncestors(mp, t))]]

Mempools == UNION { { WithAncestorState(mp) : mp \in RawMempoolsOfSize(n) } : n \in 0..MaxTx }

(***************************************************************************)
(* BlockAssembler.                                                         *)
(***************************************************************************)
blockMinFeeRate == DEFAULT_BLOCK_MIN_TX_FEE

\* BlockAssembler::BlockAssembler: the weight limit is clamped for sanity.
ClampBlockMaxWeight(opt) ==
    Max(CoinbaseReserveWeight, Min(MAX_BLOCK_WEIGHT - CoinbaseReserveWeight, opt))

IsDCT(t) == mempool[t].dct

\* Mutant: the package size is not scaled to weight units.
TestPackage_Unscaled(packageSize, packageSigOpsCost) ==
    /\ ~(nBlockWeight + packageSize >= nBlockMaxWeight)
    /\ ~(nBlockSigOpsCost + packageSigOpsCost >= MAX_BLOCK_SIGOPS_COST)

TestPackage(packageSize, packageSigOpsCost) ==
    /\ ~(nBlockWeight + WITNESS_SCALE_FACTOR * packageSize >= nBlockMaxWeight)
    /\ ~(nBlockSigOpsCost + packageSigOpsCost >= MAX_BLOCK_SIGOPS_COST)

\* Mutant: the DCT test looks at entries without in-mempool parents only.
TestPackageTransactions_RootsOnly(package) ==
    \A it \in package :
        /\ mempool[it].final
        /\ ~(~fIncludeWitness /\ mempool[it].witness)
        /\ ~(~fIncludeDCTs /\ IsDCT(it) /\ mempool[it].parents = {})

TestPackageTransactions(package) ==
    \A it \in package :
        /\ mempool[it].final
        /\ ~(~fIncludeWitness /\ mempool[it].witness)
        /\ ~(~fIncludeDCTs /\ IsDCT(it))

\* onlyUnconfirmed: drop the entries that are already in the block.
onlyUnconfirmed(testSet) == testSet \ inBlock

\* Mutant: the entries that are in the block are not skipped.
SkipMapTxEntry_NotInBlock(it) ==
    it \in DOMAIN mapModifiedTx \/ it \in failedTx

\* SkipMapTxEntry: the mapTx entry has a modified entry, is in the block or
\* has failed.
SkipMapTxEntry(it) ==
    it \in DOMAIN mapModifiedTx \/ it \in inBlock \/ it \in failedTx

\* SortForBlock: by ancestor count, then by txid.
\* Mutant: the package is sorted by descending ancestor count.
SortForBlock_Descending(package) ==
    LET cnt(t) == 1 + Cardinality(CalculateMemPoolAncestors(mempool, t))
        before(a, b) == IF cnt(a) # cnt(b) THEN cnt(a) > cnt(b) ELSE a < b
        rank(t) == 1 + Cardinality({ u \in package : before(u, t) })
    IN  [i \in 1..Cardinality(package) |-> CHOOSE t \in package : rank(t) = i]

SortForBlock(package) ==
    LET cnt(t) == 1 + Cardinality(CalculateMemPoolAncestors(mempool, t))
        before(a, b) == IF cnt(a) # cnt(b) THEN cnt(a) < cnt(b) ELSE a < b
        rank(t) == 1 + Cardinality({ u \in package : before(u, t) })
    IN  [i \in 1..Cardinality(package) |-> CHOOSE t \in package : rank(t) = i]

\* UpdatePackagesForAdded: every descendant (not itself added) of an added
\* entry gets a modified entry reduced by that entry's size, fee and sigops.
UpdatePackagesForAdded(alreadyAdded, mm) ==
    LET touched == UNION { CalculateDescendants(mempool, it) : it \in alreadyAdded }
                       \ alreadyAdded
        base(d) == IF d \in DOMAIN mm THEN mm[d] ELSE CTxMemPoolModifiedEntry(mempool, d)
        from(d) == { it \in alreadyAdded : d \in CalculateDescendants(mempool, it) }
        sz == [u \in DOMAIN mempool |-> mempool[u].size]
        fe == [u \in DOMAIN mempool |-> mempool[u].fee]
        so == [u \in DOMAIN mempool |-> mempool[u].sigops]
    IN  [d \in (DOMAIN mm) \cup touched |->
            IF d \in touched
            THEN [iter |-> d,
                  nSizeWithAncestors |-> base(d).nSizeWithAncestors - SumOver(sz, from(d)),
                  nModFeesWithAncestors |-> base(d).nModFeesWithAncestors - SumOver(fe, from(d)),
                  nSigOpCostWithAncestors |-> base(d).nSigOpCostWithAncestors - SumOver(so, from(d))]
            ELSE mm[d]]

\* The variables that are not the assembler's.
notAsm == <<chainVars, hiveVars, minerThread>>

\* resetBlock
resetBlock ==
    /\ inBlock' = {}
    /\ nBlockWeight' = CoinbaseReserveWeight
    /\ nBlockSigOpsCost' = CoinbaseReserveSigOps
    /\ nBlockTx' = 0
    /\ nFees' = 0

\* CreateNewBlock up to the call of addPackageTxs.
CreateNewBlock(hive, pop, witnessEnabled) ==
    /\ asmPc = "idle" \/ (asmPc = "done" /\ createResult # "none")
    /\ createResult' = "none"
    /\ resetBlock
    /\ vtx' = <<>>
    /\ hiveProofScript' = hive
    /\ popProofScript' = pop
    /\ fIncludeWitness' = witnessEnabled
    /\ fIncludeDCTs' = ~(hive # nullptr \/ pop # nullptr)
    /\ mapModifiedTx' = UpdatePackagesForAdded({}, <<>>)
    /\ failedTx' = {}
    /\ mi' = 1
    /\ nConsecutiveFailed' = 0
    /\ usedForHivePop' = (usedForHivePop \/
                            (asmPc = "done" /\ (hiveProofScript # nullptr \/ popProofScript # nullptr)))
    /\ asmPc' = "loop"
    /\ UNCHANGED <<mempool, mapTxByAncestorScore, nBlockMaxWeight>>

\* The end of CreateNewBlock: the template is returned when TestBlockValidity
\* passes; when it fails the call returns nullptr if popProofScript is given
\* and throws std::runtime_error otherwise.
\* Mutant: a null template whenever a proof script was given.
CreateNewBlockOutcome_NullForHive(valid) ==
    IF valid THEN "template"
    ELSE IF hiveProofScript # nullptr \/ popProofScript # nullptr THEN "nullptr"
    ELSE "throw"
CreateNewBlockOutcome(valid) ==
    IF valid THEN "template"
    ELSE IF popProofScript # nullptr THEN "nullptr"
    ELSE "throw"

\* CreateNewBlock from the return of addPackageTxs to its own return; `valid`
\* is what TestBlockValidity says of the block.
CreateNewBlockReturn(valid) ==
    /\ asmPc = "done"
    /\ createResult = "none"
    /\ createResult' = CreateNewBlockOutcome(valid)
    /\ UNCHANGED <<mempool, mapTxByAncestorScore, nBlockMaxWeight, asmPc, hiveProofScript,
                   popProofScript, inBlock, vtx, nBlockWeight, nBlockSigOpsCost, nBlockTx, nFees,
                   fIncludeWitness, fIncludeDCTs, mi, mapModifiedTx, failedTx,
                   nConsecutiveFailed, usedForHivePop>>

\* The loop of addPackageTxs: its condition and the candidate of one iteration.
MapTxEnd == mi > Len(mempool)
MapTxAtMi == mapTxByAncestorScore[mi]
LoopCondition == ~MapTxEnd \/ DOMAIN mapModifiedTx # {}
SkipIteration == ~MapTxEnd /\ SkipMapTxEntry(MapTxAtMi)

\* mapModifiedTx.get<ancestor_score>().begin()
ModItBegin ==
    CHOOSE t \in DOMAIN mapModifiedTx :
        \A u \in DOMAIN mapModifiedTx \ {t} :
            CompareTxMemPoolEntryByAncestorFee(mapModifiedTx[t], mapModifiedTx[u])

fUsingModified ==
    IF MapTxEnd THEN TRUE
    ELSE /\ DOMAIN mapModifiedTx # {}
         /\ CompareTxMemPoolEntryByAncestorFee(mapModifiedTx[ModItBegin],
                                               CTxMemPoolModifiedEntry(mempool, MapTxAtMi))

CandidateIter == IF fUsingModified THEN ModItBegin ELSE MapTxAtMi
MiAfterChoice == IF ~MapTxEnd /\ ~fUsingModified THEN mi + 1 ELSE mi

CandidateEntry ==
    IF fUsingModified THEN mapModifiedTx[ModItBegin]
    ELSE CTxMemPoolModifiedEntry(mempool, MapTxAtMi)
packageSize == CandidateEntry.nSizeWithAncestors
packageFees == CandidateEntry.nModFeesWithAncestors
packageSigOpsCost == CandidateEntry.nSigOpCostWithAncestors

CandidatePackage ==
    onlyUnconfirmed(CalculateMemPoolAncestors(mempool, CandidateIter)) \cup {CandidateIter}

Evaluating == asmPc = "loop" /\ LoopCondition /\ ~SkipIteration

\* mapModifiedTx.erase
EraseModified(mm, S) == [d \in (DOMAIN mm) \ S |-> mm[d]]

asmFixed == <<mempool, mapTxByAncestorScore, nBlockMaxWeight, hiveProofScript, popProofScript,
              fIncludeWitness, fIncludeDCTs, usedForHivePop, createResult, notAsm>>
blockTotals == <<inBlock, vtx, nBlockWeight, nBlockSigOpsCost, nBlockTx, nFees>>

\* The mapTx entry is stale, in the block or failed: ++mi; continue
AddPackageSkip ==
    /\ asmPc = "loop" /\ LoopCondition /\ SkipIteration
    /\ mi' = mi + 1
    /\ UNCHANGED <<asmFixed, blockTotals, asmPc, mapModifiedTx, failedTx, nConsecutiveFailed>>

\* The loop condition is false: addPackageTxs returns.
AddPackageLoopEnd ==
    /\ asmPc = "loop" /\ ~LoopCondition
    /\ asmPc' = "done"
    /\ UNCHANGED <<asmFixed, blockTotals, mi, mapModifiedTx, failedTx, nConsecutiveFailed>>

\* packageFees < blockMinFeeRate.GetFee(packageSize): return
AddPackageFeeStop ==
    /\ Evaluating
    /\ packageFees < GetFee(blockMinFeeRate, packageSize)
    /\ mi' = MiAfterChoice
    /\ asmPc' = "done"
    /\ UNCHANGED <<asmFixed, blockTotals, mapModifiedTx, failedTx, nConsecutiveFailed>>

\* Mutant: the failed entry stays in mapModifiedTx.
AddPackageTestPackageFails_NotErased ==
    /\ Evaluating
    /\ ~(packageFees < GetFee(blockMinFeeRate, packageSize))
    /\ ~TestPackage(packageSize, packageSigOpsCost)
    /\ mi' = MiAfterChoice
    /\ failedTx' = IF fUsingModified THEN failedTx \cup {CandidateIter} ELSE failedTx
    /\ nConsecutiveFailed' = nConsecutiveFailed + 1
    /\ asmPc' = IF nConsecutiveFailed + 1 > MAX_CONSECUTIVE_FAILURES
                   /\ nBlockWeight > nBlockMaxWeight - CoinbaseReserveWeight
                THEN "done" ELSE "loop"
    /\ UNCHANGED <<asmFixed, blockTotals, mapModifiedTx>>
\* TestPackage fails: memoize the failure, count it, give up when close to full.
AddPackageTestPackageFails ==
    /\ Evaluating
    /\ ~(packageFees < GetFee(blockMinFeeRate, packageSize))
    /\ ~TestPackage(packageSize, packageSigOpsCost)
    /\ mi' = MiAfterChoice
    /\ mapModifiedTx' = IF fUsingModified THEN EraseModified(mapModifiedTx, {CandidateIter})
                        ELSE mapModifiedTx
    /\ failedTx' = IF fUsingModified THEN failedTx \cup {CandidateIter} ELSE failedTx
    /\ nConsecutiveFailed' = nConsecutiveFailed + 1
    /\ asmPc' = IF nConsecutiveFailed + 1 > MAX_CONSECUTIVE_FAILURES
                   /\ nBlockWeight > nBlockMaxWeight - CoinbaseReserveWeight
                THEN "done" ELSE "loop"
    /\ UNCHANGED <<asmFixed, blockTotals>>

\* Mutant: a failed TestPackageTransactions counts as a failure in a row.
AddPackageTestTransactionsFails_Counted ==
    /\ Evaluating
    /\ ~(packageFees < GetFee(blockMinFeeRate, packageSize))
    /\ TestPackage(packageSize, packageSigOpsCost)
    /\ ~TestPackageTransactions(CandidatePackage)
    /\ mi' = MiAfterChoice
    /\ mapModifiedTx' = IF fUsingModified THEN EraseModified(mapModifiedTx, {CandidateIter})
                        ELSE mapModifiedTx
    /\ failedTx' = IF fUsingModified THEN failedTx \cup {CandidateIter} ELSE failedTx
    /\ nConsecutiveFailed' = nConsecutiveFailed + 1
    /\ UNCHANGED <<asmFixed, blockTotals, asmPc>>

\* TestPackageTransactions fails: memoize the failure; continue
AddPackageTestTransactionsFails ==
    /\ Evaluating
    /\ ~(packageFees < GetFee(blockMinFeeRate, packageSize))
    /\ TestPackage(packageSize, packageSigOpsCost)
    /\ ~TestPackageTransactions(CandidatePackage)
    /\ mi' = MiAfterChoice
    /\ mapModifiedTx' = IF fUsingModified THEN EraseModified(mapModifiedTx, {CandidateIter})
                        ELSE mapModifiedTx
    /\ failedTx' = IF fUsingModified THEN failedTx \cup {CandidateIter} ELSE failedTx
    /\ UNCHANGED <<asmFixed, blockTotals, asmPc, nConsecutiveFailed>>

\* The package is admitted: AddToBlock for each entry in block order, erase
\* them from mapModifiedTx, then UpdatePackagesForAdded.
AddPackageAdmit ==
    /\ Evaluating
    /\ ~(packageFees < GetFee(blockMinFeeRate, packageSize))
    /\ TestPackage(packageSize, packageSigOpsCost)
    /\ TestPackageTransactions(CandidatePackage)
    /\ LET ancestors == CandidatePackage
           sortedEntries == SortForBlock(ancestors)
       IN  /\ vtx' = vtx \o sortedEntries
           /\ nBlockWeight' = nBlockWeight
                 + SumOver([u \in DOMAIN mempool |-> mempool[u].weight], ancestors)
           /\ nBlockTx' = nBlockTx + Cardinality(ancestors)
           /\ nBlockSigOpsCost' = nBlockSigOpsCost
                 + SumOver([u \in DOMAIN mempool |-> mempool[u].sigops], ancestors)
           /\ nFees' = nFees + SumOver([u \in DOMAIN mempool |-> mempool[u].fee], ancestors)
           /\ inBlock' = inBlock \cup ancestors
           /\ mapModifiedTx' = UpdatePackagesForAdded(ancestors,
                                   EraseModified(mapModifiedTx, ancestors))
    /\ mi' = MiAfterChoice
    /\ nConsecutiveFailed' = 0
    /\ UNCHANGED <<asmFixed, asmPc, failedTx>>

\* solvingRange before any solution was written.
NoRange == [txid |-> <<>>, rewardAddress |-> 0, communityContrib |-> FALSE,
            offset |-> 0, count |-> 0]

\* The state of the Hive miner before DwarfMaster has called BusyDwarves.
InitHiveMiner(earlyOut, threadsArg) ==
    /\ dwarfMasterHeight = TipHeight
    /\ hivePc = "sleep"
    /\ pindexPrevHive = 0
    /\ useEarlyAbortThread = earlyOut
    /\ hivecheckthreads = threadsArg
    /\ dwarfBins = <<>>
    /\ binThreads = <<>>
    /\ solutionFound = FALSE
    /\ earlyAbort = FALSE
    /\ cs_solution_vars = 0
    /\ solvingRange = NoRange
    /\ solvingDwarf = 0
    /\ abortPc = "off"
    /\ written = <<>>
    /\ minerProofScript = <<>>
    /\ hiveBlock = NoBlock

\* MinerThread before it has run.
NoPowBlock ==
    [hashPrevBlock |-> UnknownHash, nHeight |-> 0, nExtraNonce |-> 0, vtx |-> <<>>,
     hashMerkleRoot |-> NullMerkleRoot, nBits |-> 0, nNonce |-> 0, nTime |-> 0]
InitMinerThread(mineBlocksOnDemand) ==
    minerThread = [pc |-> "start", nExtraNonce |-> 0, hashPrevBlock |-> UnknownHash,
                   pindexPrev |-> 0, pblock |-> NoPowBlock,
                   MineBlocksOnDemand |-> mineBlocksOnDemand]

\* The assembler after construction, over a given mempool.
InitAssemblerIndexed(mp, index, maxWeightOption) ==
    /\ mempool = mp
    /\ mapTxByAncestorScore = index
    /\ nBlockMaxWeight = ClampBlockMaxWeight(maxWeightOption)
    /\ asmPc = "idle"
    /\ hiveProofScript = nullptr
    /\ popProofScript = nullptr
    /\ inBlock = {}
    /\ vtx = <<>>
    /\ nBlockWeight = 0
    /\ nBlockSigOpsCost = 0
    /\ nBlockTx = 0
    /\ nFees = 0
    /\ fIncludeWitness = FALSE
    /\ fIncludeDCTs = TRUE
    /\ mi = 1
    /\ mapModifiedTx = <<>>
    /\ failedTx = {}
    /\ nConsecutiveFailed = 0
    /\ usedForHivePop = FALSE
    /\ createResult = "none"
InitAssembler(mp, maxWeightOption) ==
    InitAssemblerIndexed(mp, AncestorScoreIndex(mp), maxWeightOption)

InitAsm ==
    /\ \E mp \in Mempools, o \in MaxWeightOptions : InitAssembler(mp, o)
    /\ chain = InitialChain
    /\ dctDb = HonestDCTs
    /\ checkedBlock = NoBlock
    /\ checkResult = "none"
    /\ InitHiveMiner(FALSE, 0)
    /\ InitMinerThread(FALSE)

\* Proof scripts a caller of CreateNewBlock passes (contents matter to the
\* coinbase only).
SomeProofScript == <<106>>
\* Pop proof scripts that are long enough to have a byte 36: a private and a
\* public one.
PopProofScripts == {SomeProofScript, Repeat(1, 36) \o <<OP_TRUE>>, Repeat(1, 36) \o <<OP_FALSE, 1>>}

NextAsm ==
    \/ \E hive \in {nullptr, SomeProofScript}, pop \in {nullptr} \cup PopProofScripts,
          w \in BOOLEAN : CreateNewBlock(hive, pop, w) /\ UNCHANGED notAsm
    \/ \E valid \in BOOLEAN : CreateNewBlockReturn(valid) /\ UNCHANGED notAsm
    \/ AddPackageSkip
    \/ AddPackageLoopEnd
    \/ AddPackageFeeStop
    \/ AddPackageTestPackageFails
    \/ AddPackageTestTransactionsFails
    \/ AddPackageAdmit

SpecAsm == InitAsm /\ [][NextAsm]_vars

(***************************************************************************)
(* Properties of the block assembler (checked under SpecAsm).              *)
(***************************************************************************)
BlockTxs == { vtx[i] : i \in 1..Len(vtx) }
HiveOrPopMode == hiveProofScript # nullptr \/ popProofScript # nullptr

\* C1: after any sequence of package admissions the running totals, which
\* are the coinbase reserve (4000 weight, 400 sigops) plus the weights and
\* sigops costs of the admitted transactions, stay within nBlockMaxWeight
\* and MAX_BLOCK_SIGOPS_COST.
C1_TotalsWithinLimits ==
    asmPc # "idle" =>
        /\ \A t \in DOMAIN mempool : mempool[t].weight <= WITNESS_SCALE_FACTOR * mempool[t].size
        /\ nBlockWeight = CoinbaseReserveWeight
              + SumOver([u \in DOMAIN mempool |-> mempool[u].weight], BlockTxs)
        /\ nBlockSigOpsCost = CoinbaseReserveSigOps
              + SumOver([u \in DOMAIN mempool |-> mempool[u].sigops], BlockTxs)
        /\ nBlockWeight <= nBlockMaxWeight
        /\ nBlockSigOpsCost <= MAX_BLOCK_SIGOPS_COST

\* A finished block that holds a transaction and has no room left for
\* another transaction of the mempool.
C1_Witness ==
    /\ asmPc = "done"
    /\ nBlockTx >= 1
    /\ \E t \in DOMAIN mempool \ inBlock :
          /\ mempool[t].final /\ mempool[t].fee >= GetFee(blockMinFeeRate, mempool[t].size)
          /\ nBlockWeight + WITNESS_SCALE_FACTOR * mempool[t].size >= nBlockMaxWeight

\* C2: a block assembled with a Hive or a Pop proof script holds no DCT,
\* also when a DCT is an unconfirmed ancestor of a selected transaction; a
\* call without proof script admits DCTs, whatever the assembler did before.
C2_NoDCTInHiveOrPopBlock ==
    asmPc # "idle" =>
        /\ HiveOrPopMode => \A i \in 1..Len(vtx) : ~IsDCT(vtx[i])
        /\ ~HiveOrPopMode => fIncludeDCTs

\* A finished Hive or Pop block, on an assembler used for Hive or Pop
\* before, that left out a non-DCT transaction only because of its DCT
\* parent: the package passes every other admission check.
C2_Witness ==
    /\ asmPc = "done"
    /\ HiveOrPopMode
    /\ usedForHivePop
    /\ \E c \in DOMAIN mempool \ inBlock :
          /\ ~IsDCT(c) /\ mempool[c].final /\ ~mempool[c].witness
          /\ \E d \in mempool[c].parents : IsDCT(d)
          /\ TestPackage(mempool[c].nSizeWithAncestors, mempool[c].nSigOpCostWithAncestors)

\* Reachable as well: a PoW call after a Hive or Pop call puts a DCT in the block.
C2_PowAfterHiveAdmitsDCT ==
    /\ asmPc = "done" /\ ~HiveOrPopMode /\ usedForHivePop
    /\ \E i \in 1..Len(vtx) : IsDCT(vtx[i])

\* C16: in every assembled block each transaction appears after all of its
\* in-mempool ancestors, so a transaction is in the block only if all its
\* unconfirmed ancestors are.
C16_AncestorsBeforeDescendants ==
    \A n \in 1..Len(vtx) :
        \A a \in CalculateMemPoolAncestors(mempool, vtx[n]) :
            \E m \in 1..(n - 1) : vtx[m] = a

\* A child was selected before its parent came up in the index, and the
\* package put the parent in front of it.
C16_Witness ==
    /\ asmPc = "done"
    /\ \E n \in 1..Len(vtx) :
          /\ mempool[vtx[n]].parents # {}
          /\ \E p \in mempool[vtx[n]].parents :
                GetModFeesWithAncestors(mempool, p) * GetSizeWithAncestors(mempool, vtx[n])
                    < GetModFeesWithAncestors(mempool, vtx[n]) * GetSizeWithAncestors(mempool, p)

\* C12: when TestBlockValidity fails at the end of CreateNewBlock, the call
\* returns a null template in Hive mode and in Pop mode, and throws only in
\* PoW mode.
C12_NullTemplateInHiveAndPopMode ==
    /\ HiveOrPopMode => createResult # "throw"
    /\ ~HiveOrPopMode => createResult # "nullptr"

\* C12, amended: when TestBlockValidity fails at the end of CreateNewBlock,
\* the call returns a null template if a Pop proof script was given, and
\* throws otherwise, in Hive mode as in PoW mode.
C12_ThrowsUnlessPopScript ==
    /\ createResult = "throw" => popProofScript = nullptr
    /\ createResult = "nullptr" => popProofScript # nullptr
    /\ createResult = "template" => asmPc = "done"

\* TestBlockValidity has failed in Hive mode, and CreateNewBlock has thrown.
C12_Witness ==
    createResult = "throw" /\ hiveProofScript # nullptr /\ popProofScript = nullptr

(***************************************************************************)
(* Hive blocks: the proof script and coinbase the miner builds, and blocks *)
(* a peer may send instead.                                                *)
(***************************************************************************)
\* BusyDwarves: hiveProofScript << OP_RETURN << OP_DWARF << dwarfNonceVec
\*     << dctHeightVec << communityContribFlag << txidVec << messageProofVec
HiveProofScript_NoHeightMarker(dwarf, dctHeight, communityContrib, txidStr, messageProofVec) ==
    <<OP_RETURN, OP_DWARF>> \o PushData(WriteLE32(dwarf)) \o WriteLE32(dctHeight)
        \o <<IF communityContrib THEN OP_TRUE ELSE OP_FALSE>>
        \o PushData(txidStr) \o PushData(messageProofVec) \o <<0>>
HiveProofScript(dwarf, dctHeight, communityContrib, txidStr, messageProofVec) ==
    <<OP_RETURN, OP_DWARF>> \o PushData(WriteLE32(dwarf)) \o PushData(WriteLE32(dctHeight))
        \o <<IF communityContrib THEN OP_TRUE ELSE OP_FALSE>>
        \o PushData(txidStr) \o PushData(messageProofVec)

\* CreateNewBlock: the coinbase of a Hive block.
HiveCoinbase(proofScript, scriptPubKeyIn, fees) ==
    [coinbase |-> TRUE, dct |-> FALSE,
     vout |-> << [nValue |-> 0, scriptPubKey |-> RawScript(proofScript)],
                 [nValue |-> fees + GetBlockSubsidyHive, scriptPubKey |-> scriptPubKeyIn] >>]

\* A transaction of the mempool as it stands in a block.
BlockTransaction(t) == [coinbase |-> FALSE, dct |-> mempool[t].dct, vout |-> <<>>]

\* Consensus::Params: the nonce markers of Hive and Pop blocks, and the block
\* subsidies (scaled down).
hiveNonceMarker == 192
popNonceMarker == 193
GetBlockSubsidyPopPrivate == 20
GetBlockSubsidyPopPublic == 10
GetBlockSubsidyPow(nHeight) == IF nHeight <= lastInitialDistributionHeight THEN 400 ELSE 100

\* CreateNewBlock: bool isPrivate = coinbaseTx.vout[0].scriptPubKey[36] == OP_TRUE.
\* A script of 36 bytes or fewer has no byte 36: the read is out of range, and
\* `outOfRange` is what the comparison then gives.
PopIsPrivate(proofScript, outOfRange) ==
    IF Len(proofScript) > 36 THEN At(proofScript, 36) = OP_TRUE ELSE outOfRange

\* CreateNewBlock: the coinbase of a Pop block and of a PoW block.
PopCoinbase(proofScript, scriptPubKeyIn, fees, outOfRange) ==
    [coinbase |-> TRUE, dct |-> FALSE,
     vout |-> << [nValue |-> 0, scriptPubKey |-> RawScript(proofScript)],
                 [nValue |-> fees + (IF PopIsPrivate(proofScript, outOfRange)
                                     THEN GetBlockSubsidyPopPrivate
                                     ELSE GetBlockSubsidyPopPublic),
                  scriptPubKey |-> scriptPubKeyIn] >>]
PowCoinbase(scriptPubKeyIn, fees, nHeight) ==
    [coinbase |-> TRUE, dct |-> FALSE,
     vout |-> << [nValue |-> fees + GetBlockSubsidyPow(nHeight), scriptPubKey |-> scriptPubKeyIn] >>]

\* GenerateCoinbaseCommitment (validation.cpp): appends the witness
\* commitment output to the coinbase when commitments are in use.
WitnessCommitment == [type |-> "commitment", hash |-> 0]
GenerateCoinbaseCommitment(coinbaseTx, inUse) ==
    IF inUse
    THEN [coinbaseTx EXCEPT !.vout = Append(@, [nValue |-> 0, scriptPubKey |-> WitnessCommitment])]
    ELSE coinbaseTx

\* Mutant: the Pop marker takes precedence.
TemplateNonce_PopFirst ==
    IF popProofScript # nullptr THEN popNonceMarker
    ELSE IF hiveProofScript # nullptr THEN hiveNonceMarker
    ELSE 0

\* CreateNewBlock: pblock->nNonce
TemplateNonce ==
    IF hiveProofScript # nullptr THEN hiveNonceMarker
    ELSE IF popProofScript # nullptr THEN popNonceMarker
    ELSE 0

\* CreateNewBlock after addPackageTxs: the template it returns for
\* scriptPubKeyIn, in the mode the proof scripts select.
CreateNewBlockTemplate(scriptPubKeyIn, outOfRange, commitments) ==
    LET coinbaseTx ==
            IF hiveProofScript # nullptr THEN HiveCoinbase(hiveProofScript, scriptPubKeyIn, nFees)
            ELSE IF popProofScript # nullptr
            THEN PopCoinbase(popProofScript, scriptPubKeyIn, nFees, outOfRange)
            ELSE PowCoinbase(scriptPubKeyIn, nFees, TipHeight + 1)
    IN  [block |-> [hashPrevBlock |-> BlockHashAt(TipHeight),
                    nNonce |-> TemplateNonce,
                    vtx |-> << GenerateCoinbaseCommitment(coinbaseTx, commitments) >>
                            \o [n \in 1..Len(vtx) |-> BlockTransaction(vtx[n])]],
         vTxFees |-> << -nFees >> \o [n \in 1..Len(vtx) |-> mempool[vtx[n]].fee]]

\* The scripts callers have the reward paid to.
RewardScripts == { GetScriptForDestination(KeyHashDestination(key)) : key \in Keys }

\* The outputs of a coinbase that are not the witness commitment.
OwnOutputs(coinbaseTx) == SelectSeq(coinbaseTx.vout, LAMBDA o : o.scriptPubKey # WitnessCommitment)

\* The sum of the fees of the transactions in the block.
FeesOfBlock == SumOver([t \in DOMAIN mempool |-> mempool[t].fee], BlockTxs)

\* C19: the template CreateNewBlock returns has nNonce = hiveNonceMarker in
\* Hive mode, popNonceMarker in Pop mode and 0 in PoW mode, Hive taking
\* precedence when both proof scripts are given; its Hive coinbase has
\* vout[0] = the proof script with value 0 and vout[1] = scriptPubKeyIn, its
\* PoW coinbase a single output (next to the witness commitment); in every
\* mode the reward output pays the fees of the included transactions plus
\* the subsidy of the mode, and vTxFees[0] is minus the fees.
C19_TemplateOfMode ==
    createResult = "template" =>
        \A scriptPubKeyIn \in RewardScripts, outOfRange \in BOOLEAN, commitments \in BOOLEAN :
            LET pblocktemplate == CreateNewBlockTemplate(scriptPubKeyIn, outOfRange, commitments)
                vout == OwnOutputs(pblocktemplate.block.vtx[1])
                reward == vout[Len(vout)]
            IN  /\ pblocktemplate.vTxFees[1] = -FeesOfBlock
                /\ reward.scriptPubKey = scriptPubKeyIn
                /\ IF hiveProofScript # nullptr
                   THEN /\ pblocktemplate.block.nNonce = hiveNonceMarker
                        /\ Len(vout) = 2
                        /\ vout[1] = [nValue |-> 0, scriptPubKey |-> RawScript(hiveProofScript)]
                        /\ reward.nValue = FeesOfBlock + GetBlockSubsidyHive
                   ELSE IF popProofScript # nullptr
                   THEN /\ pblocktemplate.block.nNonce = popNonceMarker
                        /\ Len(vout) = 2
                        /\ vout[1] = [nValue |-> 0, scriptPubKey |-> RawScript(popProofScript)]
                        /\ reward.nValue \in {FeesOfBlock + GetBlockSubsidyPopPrivate,
                                              FeesOfBlock + GetBlockSubsidyPopPublic}
                        /\ Len(popProofScript) > 36 =>
                              (reward.nValue = FeesOfBlock + GetBlockSubsidyPopPrivate
                                  <=> At(popProofScript, 36) = OP_TRUE)
                   ELSE /\ pblocktemplate.block.nNonce = 0
                        /\ Len(vout) = 1
                        /\ reward.nValue = FeesOfBlock + GetBlockSubsidyPow(TipHeight + 1)

\* A template with fees was returned for a call with both proof scripts.
C19_Witness ==
    /\ createResult = "template"
    /\ hiveProofScript # nullptr
    /\ popProofScript # nullptr
    /\ FeesOfBlock > 0

\* Templates with fees were returned in Pop mode for a private proof script,
\* and in PoW mode.
C19_PopTemplateReturned ==
    /\ createResult = "template"
    /\ hiveProofScript = nullptr
    /\ popProofScript # nullptr
    /\ Len(popProofScript) > 36
    /\ FeesOfBlock > 0
C19_PowTemplateReturned ==
    /\ createResult = "template"
    /\ hiveProofScript = nullptr
    /\ popProofScript = nullptr
    /\ FeesOfBlock > 0

\* The key a DCT names for its reward, and whether it has a community fund output.
DCTKey(txid) == dctDb[txid].vout[1].scriptPubKey.reward.hash - 100
DCTContrib(txid) == Len(dctDb[txid].vout) >= 2

\* The Hive block an honest owner of DCT `txid` builds on the block at
\* height `prev` for dwarf `nonce`.
HonestHiveBlock(prev, txid, nonce) ==
    [hashPrevBlock |-> BlockHashAt(prev),
     vtx |-> << HiveCoinbase(
                  HiveProofScript(nonce, dctDb[txid].height, DCTContrib(txid), TxidStr(txid),
                      SignCompact(DCTKey(txid), MessageHash(GetDeterministicRandString(prev)))),
                  GetScriptForDestination(KeyHashDestination(DCTKey(txid))), 0) >>]

\* The ways a block sent by a peer departs from an honest one.
Defects ==
    {"none", "wrong_signer", "other_message", "reward_script_hash", "reward_other_key",
     "wrong_height", "flip_contrib", "bad_prefix", "short_script", "unknown_txid",
     "not_coinbase", "one_vout", "four_vouts", "no_vtx", "has_dct", "unknown_prev",
     "old_prev"}

OtherKey(key) == IF key = 1 THEN 2 ELSE 1
SomeTx == [coinbase |-> FALSE, dct |-> FALSE, vout |-> <<>>]
SomeDCT == [coinbase |-> FALSE, dct |-> TRUE, vout |-> <<>>]
SomeOutput == [nValue |-> 0, scriptPubKey |-> NonStandardScript]

PeerHiveBlock(defect, txid, nonce) ==
    LET prev == IF defect = "old_prev" THEN 0 ELSE TipHeight
        key == DCTKey(txid)
        signer == IF defect \in {"wrong_signer", "reward_other_key"} THEN OtherKey(key) ELSE key
        message == IF defect = "other_message" THEN GetDeterministicRandString(prev + 1)
                   ELSE GetDeterministicRandString(prev)
        height == IF defect = "wrong_height" THEN 1 - dctDb[txid].height ELSE dctDb[txid].height
        contrib == IF defect = "flip_contrib" THEN ~DCTContrib(txid) ELSE DCTContrib(txid)
        txidStr == IF defect = "unknown_txid" THEN TxidStr(3) ELSE TxidStr(txid)
        script == HiveProofScript(nonce, height, contrib, txidStr,
                                  SignCompact(signer, MessageHash(message)))
        proof == IF defect = "bad_prefix" THEN <<OP_RETURN, OP_RETURN>> \o Slice(script, 2, Len(script))
                 ELSE IF defect = "short_script" THEN Slice(script, 0, Len(script) - 1)
                 ELSE script
        reward == IF defect = "reward_script_hash" THEN GetScriptForDestination(ScriptHashDestination)
                  ELSE IF defect = "reward_other_key"
                       THEN GetScriptForDestination(KeyHashDestination(OtherKey(key)))
                  ELSE GetScriptForDestination(KeyHashDestination(key))
        cb == HiveCoinbase(proof, reward, 0)
        coinbase == IF defect = "not_coinbase" THEN [cb EXCEPT !.coinbase = FALSE]
                    ELSE IF defect = "one_vout" THEN [cb EXCEPT !.vout = <<cb.vout[1]>>]
                    ELSE IF defect = "four_vouts"
                         THEN [cb EXCEPT !.vout = cb.vout \o <<SomeOutput, SomeOutput>>]
                    ELSE cb
    IN  [hashPrevBlock |-> IF defect = "unknown_prev" THEN UnknownHash ELSE BlockHashAt(prev),
         vtx |-> IF defect = "no_vtx" THEN <<>>
                 ELSE IF defect = "has_dct" THEN <<coinbase, SomeTx, SomeDCT>>
                 ELSE <<coinbase>>]

\* Dwarf nonces a peer tries: the dwarves of a DCT and one beyond them.
PeerNonces == 0..3
\* The dwarf of a DCT with the lowest hash on the block at each height.
PeerDwarfHashes ==
    [prev \in 0..MaxHeight, txid \in 1..2, n \in PeerNonces |->
        DwarfHash(GetDeterministicRandString(prev), TxidStr(txid), n)]
BestNonces ==
    [prev \in 0..MaxHeight, txid \in 1..2 |->
        CHOOSE n \in PeerNonces : \A m \in PeerNonces :
            \/ PeerDwarfHashes[prev, txid, n] < PeerDwarfHashes[prev, txid, m]
            \/ PeerDwarfHashes[prev, txid, n] = PeerDwarfHashes[prev, txid, m] /\ n <= m]
BestNonce(txid) == BestNonces[TipHeight, txid]
\* A peer sends honest blocks for any dwarf, and defective ones for the best dwarf.
PeerHiveBlocks ==
    { PeerHiveBlock("none", txid, nonce) : txid \in DOMAIN dctDb, nonce \in PeerNonces }
    \cup { PeerHiveBlock(d, txid, BestNonce(txid)) : d \in Defects, txid \in DOMAIN dctDb }

(***************************************************************************)
(* The chain: blocks arrive and are connected to the tip.                  *)
(***************************************************************************)
\* Blocks from other nodes: the miners of this node take no step, and
\* cs_main is not held by CreateNewBlock (it holds it from its start through
\* TestBlockValidity).
minersIdle ==
    /\ asmPc # "loop" /\ hivePc # "create" /\ minerThread.pc # "create"
    /\ UNCHANGED <<asmVars, hiveVars, minerThread>>

\* A PoW block is connected to the tip.
ConnectPowBlock ==
    /\ checkResult = "none"
    /\ TipHeight < MaxHeight
    /\ chain' = Append(chain, [type |-> "pow", nBits |-> PowBits])
    /\ UNCHANGED <<dctDb, checkedBlock, checkResult>>
    /\ minersIdle

\* A Pop block is connected to the tip.
ConnectPopBlock ==
    /\ checkResult = "none"
    /\ TipHeight < MaxHeight
    /\ chain' = Append(chain, [type |-> "pop", nBits |-> PowBits])
    /\ UNCHANGED <<dctDb, checkedBlock, checkResult>>
    /\ minersIdle

\* CheckHiveProof is called on a block.
CheckHiveProofCall(pblock) ==
    /\ checkResult = "none"
    /\ checkedBlock' = pblock
    /\ checkResult' \in CheckHiveProofOutcomes(pblock)
    /\ UNCHANGED <<chain, dctDb>>
    /\ minersIdle

\* The Hive block that CheckHiveProof accepted is connected to the tip.
ConnectHiveBlock ==
    /\ checkResult = "true"
    /\ checkedBlock.hashPrevBlock = BlockHashAt(TipHeight)
    /\ TipHeight < MaxHeight
    /\ chain' = Append(chain, [type |-> "hive", nBits |-> GetNextHiveWorkRequired(TipHeight)])
    /\ checkedBlock' = NoBlock
    /\ checkResult' = "none"
    /\ UNCHANGED dctDb
    /\ minersIdle

\* The checked block is dropped.
DropBlock ==
    /\ checkResult \in {"true", "false"}
    /\ checkedBlock' = NoBlock
    /\ checkResult' = "none"
    /\ UNCHANGED <<chain, dctDb>>
    /\ minersIdle

InitChain ==
    /\ InitAssembler(<<>>, 0)
    /\ chain = InitialChain
    /\ dctDb \in DCTWorlds
    /\ checkedBlock = NoBlock
    /\ checkResult = "none"
    /\ InitHiveMiner(FALSE, 0)
    /\ InitMinerThread(FALSE)

NextChain ==
    \/ ConnectPowBlock
    \/ ConnectPopBlock
    \/ \E pblock \in PeerHiveBlocks : CheckHiveProofCall(pblock)
    \/ ConnectHiveBlock
    \/ DropBlock

SpecChain == InitChain /\ [][NextChain]_vars

(***************************************************************************)
(* Properties of the chain and of CheckHiveProof (checked under SpecChain).*)
(***************************************************************************)
\* The proof script of the block CheckHiveProof was called on.
CheckedProof == checkedBlock.vtx[1].vout[1].scriptPubKey.bytes
CheckedPrev == LookupBlockIndex(checkedBlock.hashPrevBlock)

\* C3: in a chain whose Hive blocks were each accepted by CheckHiveProof
\* when connected, no more than maxConsecutiveHiveBlocks Hive blocks follow
\* a PoW block before the next PoW block; Pop blocks between them do not
\* count as PoW blocks.
C3_AtMostMaxHiveBlocksWithoutPow ==
    \A h \in 0..TipHeight : HiveBlocksSincePowThroughPop(h) <= maxConsecutiveHiveBlocks

C6_AcceptedProofMeetsTargetAndSignature ==
    checkResult = "true" =>
        LET rand == GetDeterministicRandString(CheckedPrev)
            reward == checkedBlock.vtx[1].vout[2].scriptPubKey
        IN  /\ DwarfHash(rand, ProofTxidStr(CheckedProof), ProofNonce(CheckedProof))
                  < SetCompact(GetNextHiveWorkRequired(CheckedPrev))
            /\ reward.type = "pubkeyhash"
            /\ GetID(RecoverCompact(MessageHash(rand), ProofMessageSig(CheckedProof)).pubkey)
                  = reward.hash

\* CheckHiveProof returned true for a block with a community contribution,
\* on a tip that is a Hive block (so that the target is a retargeted one).
C6_Witness ==
    /\ checkResult = "true"
    /\ ProofCommunityContrib(CheckedProof)
    /\ IsHiveMined(CheckedPrev)

\* C7: a call of CheckHiveProof returns true or false and reads nothing
\* invalid; it returns false for a block whose hashPrevBlock has no block
\* index entry, for a block without transactions, and for a coinbase whose
\* vout[0] script is shorter than 144 bytes.
C7_NeverInvalidRead ==
    checkResult # "none" =>
        /\ checkResult \in {"true", "false"}
        /\ (\/ LookupBlockIndex(checkedBlock.hashPrevBlock) = -1
            \/ Len(checkedBlock.vtx) = 0
            \/ (/\ Len(checkedBlock.vtx[1].vout) >= 1
                /\ ScriptSize(checkedBlock.vtx[1].vout[1].scriptPubKey) < MinProofScriptSize))
           => checkResult = "false"

\* Reachable: the short script is rejected with false.
C7_ShortScriptRejected ==
    /\ checkResult = "false"
    /\ Len(checkedBlock.vtx) = 1 /\ Len(checkedBlock.vtx[1].vout) = 2
    /\ ScriptSize(checkedBlock.vtx[1].vout[1].scriptPubKey) = MinProofScriptSize - 1
    /\ ~TooManyHiveBlocks(HiveBlocksSincePow(CheckedPrev))

\* The DCT a checked proof names, and what it paid: output 0, the donation
\* of output 1, and their sum when the proof sets communityContrib.
CheckedTxid == uint256S(ProofTxidStr(CheckedProof))
CheckedDctValue0 == dctDb[CheckedTxid].vout[1].nValue
CheckedDonation == dctDb[CheckedTxid].vout[2].nValue
CheckedDctValue ==
    CheckedDctValue0 + (IF ProofCommunityContrib(CheckedProof) THEN CheckedDonation ELSE 0)

\* The checked block is the block an honest peer builds for the DCT and the
\* nonce of its proof, the DCT is in the UTXO set and of the right age, and
\* the dwarf meets the hash target.
CheckedProofGoodButForCount ==
    /\ Len(checkedBlock.vtx) = 1
    /\ CheckedTxid \in DOMAIN dctDb
    /\ checkedBlock = PeerHiveBlock("none", CheckedTxid, ProofNonce(CheckedProof))
    /\ CheckedPrev + 1 >= lastInitialDistributionHeight + slowStartBlocks
    /\ ~TooManyHiveBlocks(HiveBlocksSincePow(CheckedPrev))
    /\ ~MissesHashTarget(DwarfHash(GetDeterministicRandString(CheckedPrev),
                                   ProofTxidStr(CheckedProof), ProofNonce(CheckedProof)),
                         SetCompact(GetNextHiveWorkRequired(CheckedPrev)))
    /\ GetCoin(CheckedTxid, 0).ok
    /\ CheckedPrev + 1 - dctDb[CheckedTxid].height
           \in dwarfGestationBlocks..(dwarfGestationBlocks + dwarfLifespanBlocks)
    /\ ProofCommunityContrib(CheckedProof)
           => ~DonationMismatch(CheckedDctValue0, CheckedDonation)

\* C21: CheckHiveProof rejects every proof whose dwarfNonce is not strictly
\* below dwarfCount = dctValue / dwarfCost, and every proof whose dctValue is
\* below dwarfCost, dctValue including the donation when communityContrib is
\* set: a proof it accepts has dctValue >= dwarfCost and dwarfNonce < dwarfCount.
C21_RejectsNonceBeyondDwarves ==
    checkResult = "true" =>
        /\ CheckedDctValue >= dwarfCost
        /\ ProofNonce(CheckedProof) < CheckedDctValue \div dwarfCost

\* A proof that is good but for its nonce, which is the DCT's dwarf count,
\* was rejected.
C21_Witness ==
    /\ checkResult = "false"
    /\ CheckedProofGoodButForCount
    /\ CheckedDctValue >= dwarfCost
    /\ ProofNonce(CheckedProof) = CheckedDctValue \div dwarfCost

\* Reachable: a proof that is good but for a DCT of less than dwarfCost is
\* rejected, and a proof is accepted whose DCT has less than dwarfCost in
\* output 0 and reaches it with the donation.
C21_SmallDCTRejected ==
    /\ checkResult = "false"
    /\ CheckedProofGoodButForCount
    /\ CheckedDctValue < dwarfCost
C21_DonationCounted ==
    /\ checkResult = "true"
    /\ CheckedDctValue0 < dwarfCost

\* The donation test as a relation of the two amounts.
DonationIsFlooredShare(dctValue, donationAmount) ==
    /\ donationAmount * (communityContribFactor - 1) <= dctValue
    /\ dctValue <= donationAmount * (communityContribFactor - 1) + communityContribFactor - 1
DonationRule ==
    \A dctValue \in 0..MaxAmount, donationAmount \in 0..MaxAmount :
        ~DonationMismatch(dctValue, donationAmount)
            <=> DonationIsFlooredShare(dctValue, donationAmount)

\* C22 as stated: a proof with communityContrib set is accepted only if
\* donation * (communityContribFactor - 1) == dctValue, dctValue being the
\* value of the DCT's output 0 before the donation is added.
C22_DonationExactMultiple ==
    checkResult = "true" /\ ProofCommunityContrib(CheckedProof) =>
        CheckedDonation * (communityContribFactor - 1) = CheckedDctValue0

\* C22, amended: a proof with communityContrib set is accepted only if the
\* donation is (dctValue + donation) / communityContribFactor in integer
\* division, that is, donation * (communityContribFactor - 1) <= dctValue <=
\* donation * (communityContribFactor - 1) + communityContribFactor - 1.
C22_DonationIsFlooredShareOfTotal ==
    /\ DonationRule
    /\ checkResult = "true" /\ ProofCommunityContrib(CheckedProof) =>
          /\ CheckedDonation = (CheckedDctValue0 + CheckedDonation) \div communityContribFactor
          /\ DonationIsFlooredShare(CheckedDctValue0, CheckedDonation)

\* A proof was accepted whose donation is not the exact ninth of output 0.
C22_Witness ==
    /\ checkResult = "true"
    /\ ProofCommunityContrib(CheckedProof)
    /\ CheckedDonation * (communityContribFactor - 1) # CheckedDctValue0

\* Reachable: a proof that is good but for a donation above the share is rejected.
C22_OverpaidDonationRejected ==
    /\ checkResult = "false"
    /\ Len(checkedBlock.vtx) = 1
    /\ CheckedTxid \in DOMAIN dctDb
    /\ checkedBlock = PeerHiveBlock("none", CheckedTxid, ProofNonce(CheckedProof))
    /\ ProofCommunityContrib(CheckedProof)
    /\ CheckedDonation > (CheckedDctValue0 + CheckedDonation) \div communityContribFactor

\* The blocks GetNextHiveWorkRequired can step over from height h: those
\* with a predecessor, at or above minHiveCheckBlock; and the Hive blocks
\* among them.
WalkableHeights(h) == { k \in 1..h : k >= minHiveCheckBlock }
HiveHeights(h) == { k \in WalkableHeights(h) : IsHiveMined(k) }

\* C24: GetNextHiveWorkRequired returns the compact form of powLimitHive
\* whenever its walk counts no Hive block (also from a tip without
\* predecessor or below minHiveCheckBlock); it counts at most
\* hiveDifficultyWindow Hive blocks, with totalBlockCount >= hiveBlockCount;
\* and it never returns a target above powLimitHive.
C24_HiveRetargetWithinWindowAndLimit ==
    \A h \in 0..TipHeight :
        LET w == HiveWindowWalk(h, 0, 0, 0)
        IN  /\ w.hiveBlockCount <= hiveDifficultyWindow
            /\ w.hiveBlockCount <= Cardinality(HiveHeights(h))
            /\ w.hiveBlockCount = hiveDifficultyWindow \/ w.hiveBlockCount = Cardinality(HiveHeights(h))
            /\ w.totalBlockCount >= w.hiveBlockCount
            /\ w.totalBlockCount <= Cardinality(WalkableHeights(h))
            /\ HiveHeights(h) = {} => GetNextHiveWorkRequired(h) = GetCompact(powLimitHive)
            /\ (h = 0 \/ h < minHiveCheckBlock)
                   => GetNextHiveWorkRequired(h) = GetCompact(powLimitHive)
            /\ SetCompact(GetNextHiveWorkRequired(h)) <= powLimitHive

\* The walk from the tip has stopped at a full window after stepping over
\* blocks that are not Hive blocks, and the target is below the limit.
C24_Witness ==
    LET w == HiveWindowWalk(TipHeight, 0, 0, 0)
    IN  /\ w.hiveBlockCount = hiveDifficultyWindow
        /\ w.totalBlockCount > w.hiveBlockCount
        /\ Cardinality(HiveHeights(TipHeight)) > hiveDifficultyWindow
        /\ SetCompact(GetNextHiveWorkRequired(TipHeight)) < powLimitHive

\* Reachable: the retargeted value is above powLimitHive and the limit is returned.
C24_LimitApplied ==
    LET w == HiveWindowWalk(TipHeight, 0, 0, 0)
    IN  /\ w.hiveBlockCount > 0
        /\ ((w.sum \div w.hiveBlockCount) * w.totalBlockCount)
               \div (w.hiveBlockCount * hiveBlockSpacingTarget) > powLimitHive
        /\ GetNextHiveWorkRequired(TipHeight) = GetCompact(powLimitHive)

(***************************************************************************)
(* The Hive miner: DwarfMaster, BusyDwarves, CheckBin, AbortWatchThread.   *)
(***************************************************************************)
\* The dwarf status the wallet reports for a DCT when the tip is at `tip`:
\* that of a dwarf working on the next block.
DwarfStatus(txid, tip) ==
    LET depth == tip + 1 - dctDb[txid].height
    IN  IF depth < dwarfGestationBlocks THEN "immature"
        ELSE IF depth > dwarfGestationBlocks + dwarfLifespanBlocks THEN "expired"
        ELSE "mature"

\* pwallet->GetDCTs: the wallet's DCTs in txid order.
GetDCTs(tip) ==
    [t \in DOMAIN dctDb |->
        [txid |-> TxidStr(t),
         rewardAddress |-> DCTKey(t),
         communityContrib |-> DCTContrib(t),
         dwarfCount |-> SumOver([n \in 1..Len(dctDb[t].vout) |-> dctDb[t].vout[n].nValue],
                                1..Len(dctDb[t].vout)) \div dwarfCost,
         dwarfStatus |-> DwarfStatus(t, tip)]]

\* BusyDwarves: the mature DCTs, in order.
RECURSIVE MatureDCTs(_, _)
MatureDCTs(potentialDcts, k) ==
    IF k > Len(potentialDcts) THEN <<>>
    ELSE IF potentialDcts[k].dwarfStatus # "mature" THEN MatureDCTs(potentialDcts, k + 1)
    ELSE <<potentialDcts[k]>> \o MatureDCTs(potentialDcts, k + 1)

TotalDwarves(dcts) == SumOver([k \in 1..Len(dcts) |-> dcts[k].dwarfCount], 1..Len(dcts))

\* BusyDwarves: threadCount from the core count and -hivecheckthreads.
ThreadCount(coreCount, arg) ==
    IF arg = -2 THEN Max(1, coreCount - 1)
    ELSE IF arg < 0 \/ arg > coreCount THEN coreCount
    ELSE IF arg = 0 THEN 1
    ELSE arg

\* IEEE 754 single precision: a float has a significand of 24 bits.
FloatSignificand == 16777216

\* num / den rounded to the nearest integer, ties to the even one.
RoundHalfEven(num, den) ==
    LET q == num \div den
        r == num % den
    IN  IF 2 * r < den THEN q
        ELSE IF 2 * r > den THEN q + 1
        ELSE IF q % 2 = 0 THEN q ELSE q + 1

\* The power of two by which n has to be divided to fit the significand.
RECURSIVE FloatUnit(_)
FloatUnit(n) == IF n < FloatSignificand THEN 1 ELSE 2 * FloatUnit(n \div 2)

\* (float)n of an int n >= 0
FloatOfInt(n) == RoundHalfEven(n, FloatUnit(n)) * FloatUnit(n)

\* The number of binary places a float quotient num / den below 2^24 has
\* after the point, and 2 to that power.
RECURSIVE FloatPlaces(_, _)
FloatPlaces(num, den) ==
    IF 2 * num >= FloatSignificand * den THEN 1 ELSE 2 * FloatPlaces(2 * num, den)

\* ceil(f / (float)den) for a float f >= 0 with an integer value and an int
\* den > 0 that a float holds exactly: the quotient is rounded to a float
\* before ceil sees it.
CeilOfFloatQuotient(f, den) ==
    IF f = 0 THEN 0
    ELSE IF f \div den >= FloatSignificand
    THEN RoundHalfEven(f, den * FloatUnit(f \div den)) * FloatUnit(f \div den)
    ELSE LET places == FloatPlaces(f, den)
             significand == RoundHalfEven(f * places, den)
         IN  (significand + places - 1) \div places

\* ceil(totalDwarves / threadCount) in exact arithmetic.
DwarvesPerBin_Exact(totalDwarves, threadCount) ==
    (totalDwarves + threadCount - 1) \div threadCount

\* ceil(totalDwarves / (float)threadCount)
DwarvesPerBin(totalDwarves, threadCount) ==
    CeilOfFloatQuotient(FloatOfInt(totalDwarves), threadCount)

CDwarfRange(dct, offset, count) ==
    [txid |-> dct.txid, rewardAddress |-> dct.rewardAddress,
     communityContrib |-> dct.communityContrib, offset |-> offset, count |-> count]

\* BusyDwarves: the inner loop that fills one bin, from DCT k at dwarfOffset.
RECURSIVE FillBin(_, _, _, _, _, _)
\* Mutant: the rest of a DCT is added with the count of the whole DCT.
FillBin_WholeCount(dcts, k, dwarfOffset, currentBin, dwarvesInBin, dwarvesPerBin) ==
    IF k > Len(dcts) THEN [bin |-> currentBin, k |-> k, dwarfOffset |-> dwarfOffset]
    ELSE LET spaceLeft == dwarvesPerBin - dwarvesInBin
             dct == dcts[k]
         IN  IF dct.dwarfCount - dwarfOffset <= spaceLeft
             THEN FillBin(dcts, k + 1, 0,
                          Append(currentBin, CDwarfRange(dct, dwarfOffset, dct.dwarfCount)),
                          dwarvesInBin + dct.dwarfCount - dwarfOffset, dwarvesPerBin)
             ELSE [bin |-> Append(currentBin, CDwarfRange(dct, dwarfOffset, spaceLeft)),
                   k |-> k, dwarfOffset |-> dwarfOffset + spaceLeft]

FillBin(dcts, k, dwarfOffset, currentBin, dwarvesInBin, dwarvesPerBin) ==
    IF k > Len(dcts) THEN [bin |-> currentBin, k |-> k, dwarfOffset |-> dwarfOffset]
    ELSE LET spaceLeft == dwarvesPerBin - dwarvesInBin
             dct == dcts[k]
         IN  IF dct.dwarfCount - dwarfOffset <= spaceLeft
             THEN FillBin(dcts, k + 1, 0,
                          Append(currentBin, CDwarfRange(dct, dwarfOffset, dct.dwarfCount - dwarfOffset)),
                          dwarvesInBin + dct.dwarfCount - dwarfOffset, dwarvesPerBin)
             ELSE [bin |-> Append(currentBin, CDwarfRange(dct, dwarfOffset, spaceLeft)),
                   k |-> k, dwarfOffset |-> dwarfOffset + spaceLeft]

\* BusyDwarves: the outer loop that makes bins until the DCTs run out.
RECURSIVE BinDwarves(_, _, _, _, _)
BinDwarves(dcts, k, dwarfOffset, bins, dwarvesPerBin) ==
    IF k > Len(dcts) THEN bins
    ELSE LET f == FillBin(dcts, k, dwarfOffset, <<>>, 0, dwarvesPerBin)
         IN  BinDwarves(dcts, f.k, f.dwarfOffset, Append(bins, f.bin), dwarvesPerBin)

\* What a cycle works with: fixed by pindexPrev.
HiveRandString == GetDeterministicRandString(pindexPrevHive)
HiveTarget == SetCompact(GetNextHiveWorkRequired(pindexPrevHive))

\* CheckBin: the dwarf hash of dwarf i of a range.
BinDwarfHash(dwarfRange, i) == DwarfHash(HiveRandString, dwarfRange.txid, i)

\* CheckBin: the position of the two nested loops at or after (r, i).
RECURSIVE LoopPosition(_, _, _)
LoopPosition(bin, r, i) ==
    IF r > Len(bin) THEN [r |-> r, i |-> 0]
    ELSE IF i < bin[r].offset + bin[r].count THEN [r |-> r, i |-> i]
    ELSE IF r + 1 > Len(bin) THEN [r |-> r + 1, i |-> 0]
    ELSE LoopPosition(bin, r + 1, bin[r + 1].offset)

\* boost::thread(CheckBin, ...): a worker at the start of its bin.
SpawnCheckBin(bin) ==
    LET p == IF Len(bin) = 0 THEN [r |-> 1, i |-> 0] ELSE LoopPosition(bin, 1, bin[1].offset)
    IN  [pc |-> "check", r |-> p.r, i |-> p.i, checkCount |-> 0]

Workers == DOMAIN binThreads
\* What no step of the Hive miner changes: the node's options and the PoW miner.
hiveFixed == <<useEarlyAbortThread, hivecheckthreads, minerThread>>

\* --- CheckBin, one step per access to shared state ---

\* One iteration of the inner loop: the poll of the atomics when
\* checkCount++ % 1000 == 0, then the hash of dwarf i and its comparison.
CheckBinIteration(b) ==
    /\ binThreads[b].pc = "check"
    /\ LET t == binThreads[b]
           bin == dwarfBins[b]
       IN  IF t.r > Len(bin)
           THEN binThreads' = [binThreads EXCEPT ![b].pc = "done"]
           ELSE IF t.checkCount % HiveCheckPollInterval = 0 /\ (solutionFound \/ earlyAbort)
           THEN binThreads' = [binThreads EXCEPT ![b].pc = "done", ![b].checkCount = t.checkCount + 1]
           ELSE IF BinDwarfHash(bin[t.r], t.i) < HiveTarget
           THEN binThreads' = [binThreads EXCEPT ![b].pc = "lock", ![b].checkCount = t.checkCount + 1]
           ELSE LET p == LoopPosition(bin, t.r, t.i + 1)
                IN  binThreads' = [binThreads EXCEPT ![b].r = p.r, ![b].i = p.i,
                                                     ![b].checkCount = t.checkCount + 1]
    /\ UNCHANGED <<dwarfMasterHeight, hivePc, pindexPrevHive, hiveFixed, dwarfBins, solutionFound, earlyAbort,
                   cs_solution_vars, solvingRange, solvingDwarf, abortPc, written, minerProofScript,
                   hiveBlock>>
    /\ UNCHANGED <<asmVars, chainVars>>

\* LOCK(cs_solution_vars)
CheckBinLock(b) ==
    /\ binThreads[b].pc = "lock"
    /\ cs_solution_vars = 0
    /\ cs_solution_vars' = b
    /\ binThreads' = [binThreads EXCEPT ![b].pc = "store_found"]
    /\ UNCHANGED <<dwarfMasterHeight, hivePc, pindexPrevHive, hiveFixed, dwarfBins, solutionFound, earlyAbort,
                   solvingRange, solvingDwarf, abortPc, written, minerProofScript, hiveBlock>>
    /\ UNCHANGED <<asmVars, chainVars>>

\* solutionFound.store(true)
CheckBinStoreFound(b) ==
    /\ binThreads[b].pc = "store_found"
    /\ solutionFound' = TRUE
    /\ binThreads' = [binThreads EXCEPT ![b].pc = "store_range"]
    /\ UNCHANGED <<dwarfMasterHeight, hivePc, pindexPrevHive, hiveFixed, dwarfBins, earlyAbort, cs_solution_vars,
                   solvingRange, solvingDwarf, abortPc, written, minerProofScript, hiveBlock>>
    /\ UNCHANGED <<asmVars, chainVars>>

\* solvingRange = dwarfRange
CheckBinStoreRange(b) ==
    /\ binThreads[b].pc = "store_range"
    /\ solvingRange' = dwarfBins[b][binThreads[b].r]
    /\ binThreads' = [binThreads EXCEPT ![b].pc = "store_dwarf"]
    /\ UNCHANGED <<dwarfMasterHeight, hivePc, pindexPrevHive, hiveFixed, dwarfBins, solutionFound, earlyAbort,
                   cs_solution_vars, solvingDwarf, abortPc, written, minerProofScript, hiveBlock>>
    /\ UNCHANGED <<asmVars, chainVars>>

\* solvingDwarf = i; return (the lock is released)
CheckBinStoreDwarf(b) ==
    /\ binThreads[b].pc = "store_dwarf"
    /\ solvingDwarf' = binThreads[b].i
    /\ cs_solution_vars' = 0
    /\ written' = Append(written, [thread |-> b, range |-> dwarfBins[b][binThreads[b].r],
                                   dwarf |-> binThreads[b].i])
    /\ binThreads' = [binThreads EXCEPT ![b].pc = "done"]
    /\ UNCHANGED <<dwarfMasterHeight, hivePc, pindexPrevHive, hiveFixed, dwarfBins, solutionFound, earlyAbort,
                   solvingRange, abortPc, minerProofScript, hiveBlock>>
    /\ UNCHANGED <<asmVars, chainVars>>

\* --- AbortWatchThread ---
abortLeaves == <<dwarfMasterHeight, hivePc, pindexPrevHive, hiveFixed, dwarfBins, binThreads, solutionFound,
                 cs_solution_vars, solvingRange, solvingDwarf, written, minerProofScript, hiveBlock>>

\* if (solutionFound.load() || earlyAbort.load()) return;
AbortWatchPoll ==
    /\ abortPc = "poll"
    /\ abortPc' = IF solutionFound \/ earlyAbort THEN "done" ELSE "read"
    /\ UNCHANGED <<abortLeaves, earlyAbort, asmVars, chainVars>>

\* newHeight = chainActive.Tip()->nHeight under cs_main; compare with height
AbortWatchReadTip ==
    /\ abortPc = "read"
    /\ asmPc # "loop"
    /\ abortPc' = IF TipHeight # dwarfMasterHeight THEN "fire" ELSE "poll"
    /\ UNCHANGED <<abortLeaves, earlyAbort, asmVars, chainVars>>

\* earlyAbort.store(true); return.  The thread that has returned here is
\* "fired", the one that has returned at the test of the flags "done".
AbortWatchFire ==
    /\ abortPc = "fire"
    /\ earlyAbort' = TRUE
    /\ abortPc' = "fired"
    /\ UNCHANGED <<abortLeaves, asmVars, chainVars>>

\* --- DwarfMaster and BusyDwarves ---
\* The file-level atomics, mutex and solution record; the locals of BusyDwarves.
hiveGlobals == <<solutionFound, earlyAbort, cs_solution_vars, solvingRange, solvingDwarf>>
hiveLocals == <<pindexPrevHive, dwarfBins, binThreads, abortPc, written, minerProofScript, hiveBlock>>

\* DwarfMaster: the tip height has changed: BusyDwarves(height) is called.
DwarfMasterPoll ==
    /\ hivePc = "sleep"
    /\ asmPc # "loop"
    /\ TipHeight # dwarfMasterHeight
    /\ dwarfMasterHeight' = TipHeight
    /\ hivePc' = "called"
    /\ UNCHANGED <<hiveFixed, hiveGlobals, hiveLocals>>
    /\ UNCHANGED <<asmVars, chainVars>>

\* DwarfMaster: catch (const std::runtime_error &e), and the loop goes on.
DwarfMasterCatch ==
    /\ hivePc = "threw"
    /\ hivePc' = "sleep"
    /\ UNCHANGED <<dwarfMasterHeight, pindexPrevHive, dwarfBins, binThreads, abortPc, written,
                   minerProofScript, hiveBlock, hiveFixed, hiveGlobals>>
    /\ UNCHANGED <<asmVars, chainVars>>

\* BusyDwarves returns false: its locals are gone.
BusyDwarvesReturn ==
    /\ hivePc' = "sleep"
    /\ pindexPrevHive' = 0
    /\ dwarfBins' = <<>>
    /\ binThreads' = <<>>
    /\ abortPc' = "off"
    /\ written' = <<>>
    /\ minerProofScript' = <<>>
    /\ hiveBlock' = NoBlock

\* for (auto& t : binThreads) t.join();
AllWorkersJoined_NoJoin == TRUE
AllWorkersJoined == \A b \in Workers : binThreads[b].pc = "done"

\* BusyDwarves from its start to the spawning of the threads.  `ready` is
\* the outcome of the checks of the environment (peers, initial block
\* download, wallet).
BusyDwarvesStart(ready) ==
    /\ hivePc = "called"
    /\ TipHeight < MaxHeight
    /\ LET prev == TipHeight
           dcts == MatureDCTs(GetDCTs(prev), 1)
           totalDwarves == TotalDwarves(dcts)
           threadCount == ThreadCount(GetNumCores, hivecheckthreads)
           bins == BinDwarves(dcts, 1, 0, <<>>, DwarvesPerBin(totalDwarves, threadCount))
       IN  IF \/ ~ready
              \/ dwarfMasterHeight < lastInitialDistributionHeight + slowStartBlocks
              \/ HiveBlocksSincePowThroughPop(prev) >= maxConsecutiveHiveBlocks
              \/ totalDwarves = 0
           THEN BusyDwarvesReturn /\ UNCHANGED hiveGlobals
           ELSE /\ hivePc' = "join"
                /\ pindexPrevHive' = prev
                /\ dwarfBins' = bins
                /\ solutionFound' = FALSE
                /\ earlyAbort' = FALSE
                /\ binThreads' = [b \in 1..Len(bins) |-> SpawnCheckBin(bins[b])]
                /\ abortPc' = IF useEarlyAbortThread THEN "poll" ELSE "off"
                /\ written' = <<>>
                /\ UNCHANGED <<cs_solution_vars, solvingRange, solvingDwarf, minerProofScript, hiveBlock>>
    /\ UNCHANGED <<dwarfMasterHeight, hiveFixed>>
    /\ UNCHANGED <<asmVars, chainVars>>

\* The joins have returned; the early abort is handled.
BusyDwarvesJoin ==
    /\ hivePc = "join"
    /\ AllWorkersJoined
    /\ IF useEarlyAbortThread
       THEN IF earlyAbort
            THEN BusyDwarvesReturn /\ UNCHANGED hiveGlobals
            ELSE /\ hivePc' = "join_abort"
                 /\ earlyAbort' = TRUE
                 /\ UNCHANGED <<hiveLocals, solutionFound, cs_solution_vars, solvingRange, solvingDwarf>>
       ELSE hivePc' = "inspect" /\ UNCHANGED <<hiveLocals, hiveGlobals>>
    /\ UNCHANGED <<dwarfMasterHeight, hiveFixed>>
    /\ UNCHANGED <<asmVars, chainVars>>

\* earlyAbortThread->join()
BusyDwarvesJoinAbortThread ==
    /\ hivePc = "join_abort"
    /\ abortPc \in {"done", "fired"}
    /\ hivePc' = "inspect"
    /\ UNCHANGED <<dwarfMasterHeight, hiveFixed, hiveGlobals, hiveLocals>>
    /\ UNCHANGED <<asmVars, chainVars>>

\* BusyDwarves reads the solution and assembles the proof script.
BusyDwarvesInspect ==
    /\ hivePc = "inspect"
    /\ asmPc # "loop"
    /\ LET key == solvingRange.rewardAddress
           coin == GetCoin(uint256S(solvingRange.txid), 0)
           messageProofVec == SignCompact(key, MessageHash(HiveRandString))
       IN  IF ~solutionFound \/ key \notin Keys \/ ~coin.ok
           THEN BusyDwarvesReturn
           ELSE /\ hivePc' = "assembled"
                /\ minerProofScript' = HiveProofScript(solvingDwarf, coin.nHeight,
                                      solvingRange.communityContrib, solvingRange.txid,
                                      messageProofVec)
                /\ UNCHANGED <<pindexPrevHive, dwarfBins, binThreads, abortPc, written, hiveBlock>>
    /\ UNCHANGED <<dwarfMasterHeight, hiveFixed, hiveGlobals>>
    /\ UNCHANGED <<asmVars, chainVars>>

\* BlockAssembler(Params()).CreateNewBlock(rewardScript, &hiveProofScript)
BusyDwarvesCreateNewBlock ==
    /\ hivePc = "assembled"
    /\ CreateNewBlock(minerProofScript, nullptr, TRUE)
    /\ hivePc' = "create"
    /\ UNCHANGED <<dwarfMasterHeight, hiveFixed, hiveGlobals, hiveLocals>>
    /\ UNCHANGED chainVars

\* CreateNewBlock after addPackageTxs: the coinbase and the header.
HiveBlockTemplate ==
    [hashPrevBlock |-> BlockHashAt(TipHeight),
     hashMerkleRoot |-> NullMerkleRoot,
     vtx |-> << HiveCoinbase(hiveProofScript,
                    GetScriptForDestination(KeyHashDestination(solvingRange.rewardAddress)),
                    nFees) >>
             \o [n \in 1..Len(vtx) |-> BlockTransaction(vtx[n])]]

\* TestBlockValidity, for a Hive block: its proof must check.
TestBlockValidity(pblock) == CheckHiveProof(pblock) = "true"

\* The temporary BlockAssembler is destroyed.
DestroyBlockAssembler ==
    /\ asmPc' = "idle"
    /\ hiveProofScript' = nullptr
    /\ popProofScript' = nullptr
    /\ inBlock' = {}
    /\ vtx' = <<>>
    /\ nBlockWeight' = 0
    /\ nBlockSigOpsCost' = 0
    /\ nBlockTx' = 0
    /\ nFees' = 0
    /\ fIncludeWitness' = FALSE
    /\ fIncludeDCTs' = TRUE
    /\ mi' = 1
    /\ mapModifiedTx' = <<>>
    /\ failedTx' = {}
    /\ nConsecutiveFailed' = 0
    /\ usedForHivePop' = FALSE
    /\ createResult' = "none"
    /\ UNCHANGED <<mempool, mapTxByAncestorScore, nBlockMaxWeight>>

\* An exception leaves BusyDwarves: its locals are gone, and the exception
\* is on its way to the caller.
BusyDwarvesThrow ==
    /\ hivePc' = "threw"
    /\ pindexPrevHive' = 0
    /\ dwarfBins' = <<>>
    /\ binThreads' = <<>>
    /\ abortPc' = "off"
    /\ written' = <<>>
    /\ minerProofScript' = <<>>
    /\ hiveBlock' = NoBlock

\* CreateNewBlock ends: BusyDwarves goes on with the template and computes
\* its merkle root, returns false on a null template, and does not catch what
\* CreateNewBlock throws.
BusyDwarvesBlockCreated ==
    /\ hivePc = "create"
    /\ asmPc = "done"
    /\ LET outcome == CreateNewBlockOutcome(TestBlockValidity(HiveBlockTemplate))
       IN  IF outcome = "template"
           THEN /\ hivePc' = "stale_check"
                /\ hiveBlock' = [HiveBlockTemplate EXCEPT
                                    !.hashMerkleRoot = BlockMerkleRoot(HiveBlockTemplate.vtx)]
                /\ UNCHANGED <<pindexPrevHive, dwarfBins, binThreads, abortPc, written, minerProofScript>>
           ELSE IF outcome = "nullptr" THEN BusyDwarvesReturn
           ELSE BusyDwarvesThrow
    /\ DestroyBlockAssembler
    /\ UNCHANGED <<dwarfMasterHeight, hiveFixed, hiveGlobals>>
    /\ UNCHANGED chainVars

\* if (pblock->hashPrevBlock != chainActive.Tip()->GetBlockHash()) return false;
IsStale(pblock) == pblock.hashPrevBlock # BlockHashAt(TipHeight)

\* Make sure the new block's not stale (under cs_main).
BusyDwarvesStaleCheck ==
    /\ hivePc = "stale_check"
    /\ IF IsStale(hiveBlock)
       THEN BusyDwarvesReturn
       ELSE hivePc' = "submit" /\ UNCHANGED hiveLocals
    /\ UNCHANGED <<dwarfMasterHeight, hiveFixed, hiveGlobals>>
    /\ UNCHANGED <<asmVars, chainVars>>

\* ProcessNewBlock for a Hive block: it is connected when it builds on the
\* tip and its proof checks.
ProcessNewBlock(pblock) ==
    /\ chain' = IF /\ pblock.hashPrevBlock = BlockHashAt(TipHeight)
                   /\ TipHeight < MaxHeight
                   /\ CheckHiveProof(pblock) = "true"
                THEN Append(chain, [type |-> "hive", nBits |-> GetNextHiveWorkRequired(TipHeight)])
                ELSE chain
    /\ UNCHANGED <<dctDb, checkedBlock, checkResult>>

\* Commit and propagate the block; BusyDwarves returns.
BusyDwarvesSubmit ==
    /\ hivePc = "submit"
    /\ ProcessNewBlock(hiveBlock)
    /\ BusyDwarvesReturn
    /\ UNCHANGED <<dwarfMasterHeight, hiveFixed, hiveGlobals>>
    /\ UNCHANGED asmVars

\* The mempool the Hive miner assembles from: a parent and its child, a
\* second transaction of the parent's kind, a DCT and a low-fee transaction.
KindWithFee(fee) == CHOOSE k \in TxKinds : k.fee = fee
MempoolEntry(kind, parents) ==
    [size |-> kind.size, weight |-> kind.weight, fee |-> kind.fee, sigops |-> kind.sigops,
     final |-> kind.final, witness |-> kind.witness, dct |-> kind.dct, parents |-> parents]
HiveMinerMempool ==
    WithAncestorState(<< MempoolEntry(KindWithFee(5000), {}),
                         MempoolEntry(KindWithFee(6000), {1}),
                         MempoolEntry(KindWithFee(5000), {}),
                         MempoolEntry(KindWithFee(3000), {}),
                         MempoolEntry(KindWithFee(500), {}) >>)
HiveMinerMempools == {<<>>, HiveMinerMempool}

\* -hivecheckthreads and -hiveearlyout as given to the node.
HiveThreadOptions == {-2, 3}

InitHive ==
    /\ \E mp \in HiveMinerMempools : InitAssembler(mp, HiveMinerMaxWeight)
    /\ chain = InitialChain
    /\ dctDb = HonestDCTs
    /\ checkedBlock = NoBlock
    /\ checkResult = "none"
    /\ \E earlyOut \in BOOLEAN, threadsArg \in HiveThreadOptions :
          InitHiveMiner(earlyOut, threadsArg)
    /\ InitMinerThread(FALSE)

NextHive ==
    \/ DwarfMasterPoll
    \/ DwarfMasterCatch
    \/ \E ready \in BOOLEAN : BusyDwarvesStart(ready)
    \/ \E b \in Workers : CheckBinIteration(b)
    \/ \E b \in Workers : CheckBinLock(b)
    \/ \E b \in Workers : CheckBinStoreFound(b)
    \/ \E b \in Workers : CheckBinStoreRange(b)
    \/ \E b \in Workers : CheckBinStoreDwarf(b)
    \/ AbortWatchPoll
    \/ AbortWatchReadTip
    \/ AbortWatchFire
    \/ BusyDwarvesJoin
    \/ BusyDwarvesJoinAbortThread
    \/ BusyDwarvesInspect
    \/ BusyDwarvesCreateNewBlock
    \/ AddPackageSkip
    \/ AddPackageLoopEnd
    \/ AddPackageFeeStop
    \/ AddPackageTestPackageFails
    \/ AddPackageTestTransactionsFails
    \/ AddPackageAdmit
    \/ BusyDwarvesBlockCreated
    \/ BusyDwarvesStaleCheck
    \/ BusyDwarvesSubmit
    \/ ConnectPowBlock

SpecHive == InitHive /\ [][NextHive]_vars

(***************************************************************************)
(* The PoW miner: MinerThread.                                             *)
(***************************************************************************)
minerLeaves == <<asmVars, chainVars, hiveVars>>

\* P2P, the wallet and the coinbase script are checked: a runtime_error ends
\* the thread.
MinerThreadStart(available) ==
    /\ minerThread.pc = "start"
    /\ minerThread' = [minerThread EXCEPT !.pc = IF available THEN "idle" ELSE "returned"]
    /\ UNCHANGED minerLeaves

\* The RNG block path: vBurns is empty, totalVotes stays 0 and
\* rand % totalVotes divides by zero, which is undefined behaviour.
RNGBlockOutcomes(nHeight) ==
    IF nHeight % nRNGBlockSpacing = 0 THEN {"crash", "continue"} ELSE {"continue"}

\* CBlockIndex* pindexPrev = chainActive.Tip(), and the RNG block path.
MinerThreadReadTip ==
    /\ minerThread.pc = "idle"
    /\ \E outcome \in RNGBlockOutcomes(TipHeight) :
          minerThread' = [minerThread EXCEPT
                             !.pindexPrev = TipHeight,
                             !.pc = IF outcome = "crash" THEN "crashed" ELSE "tip_read"]
    /\ UNCHANGED minerLeaves

\* BlockAssembler(Params()).CreateNewBlock(coinbaseScript->reserveScript)
MinerThreadCreateNewBlock ==
    /\ minerThread.pc = "tip_read"
    /\ \/ minerThread.hashPrevBlock # BlockHashAt(TipHeight)
       \/ minerThread.nExtraNonce < MaxExtraNonce
    /\ \E witnessEnabled \in BOOLEAN : CreateNewBlock(nullptr, nullptr, witnessEnabled)
    /\ minerThread' = [minerThread EXCEPT !.pc = "create"]
    /\ UNCHANGED <<chainVars, hiveVars>>

\* CreateNewBlock after addPackageTxs, for a PoW block: the header and the
\* height in the coinbase.
\* nHeight and nExtraNonce are the scriptSig of the coinbase, vtx the
\* transactions after it; nTime counts from the creation of the template.
PowBlockTemplate ==
    [hashPrevBlock |-> BlockHashAt(TipHeight), nHeight |-> TipHeight + 1, nExtraNonce |-> 0,
     vtx |-> [n \in 1..Len(vtx) |-> BlockTransaction(vtx[n])],
     hashMerkleRoot |-> NullMerkleRoot, nBits |-> PowBits, nNonce |-> 0, nTime |-> 0]

\* The transactions of a PoW block, the coinbase first.
PowBlockTxs(pblock) ==
    << [coinbase |-> TRUE, scriptSig |-> <<pblock.nHeight, pblock.nExtraNonce>>] >> \o pblock.vtx

\* The block with a new coinbase scriptSig and the merkle root recomputed.
WithCoinbaseScriptSig(pblock, nHeight, nExtraNonce) ==
    LET b == [pblock EXCEPT !.nHeight = nHeight, !.nExtraNonce = nExtraNonce]
    IN  [b EXCEPT !.hashMerkleRoot = BlockMerkleRoot(PowBlockTxs(b))]

\* Mutant: the static hashPrevBlock is not updated at a reset.
IncrementExtraNonce_StaleStatic(pblock, pindexPrev, thread) ==
    LET reset == thread.hashPrevBlock # pblock.hashPrevBlock
        n == (IF reset THEN 0 ELSE thread.nExtraNonce) + 1
    IN  [thread EXCEPT !.nExtraNonce = n,
                       !.pblock = WithCoinbaseScriptSig(pblock, pindexPrev + 1, n)]

\* Mutant: the merkle root is computed before the coinbase is replaced.
IncrementExtraNonce_RootOfOldCoinbase(pblock, pindexPrev, thread) ==
    LET reset == thread.hashPrevBlock # pblock.hashPrevBlock
        n == (IF reset THEN 0 ELSE thread.nExtraNonce) + 1
    IN  [thread EXCEPT !.nExtraNonce = n,
                       !.hashPrevBlock = pblock.hashPrevBlock,
                       !.pblock = [pblock EXCEPT !.nHeight = pindexPrev + 1, !.nExtraNonce = n,
                                                 !.hashMerkleRoot = BlockMerkleRoot(PowBlockTxs(pblock))]]

\* IncrementExtraNonce: the thread with its counter (an unsigned int, kept
\* far from its range by MaxExtraNonce), the function's static hashPrevBlock
\* and the block updated.
IncrementExtraNonce(pblock, pindexPrev, thread) ==
    LET reset == thread.hashPrevBlock # pblock.hashPrevBlock
        n == (IF reset THEN 0 ELSE thread.nExtraNonce) + 1
    IN  [thread EXCEPT !.nExtraNonce = n,
                       !.hashPrevBlock = pblock.hashPrevBlock,
                       !.pblock = WithCoinbaseScriptSig(pblock, pindexPrev + 1, n)]

\* CreateNewBlock returns the template, and IncrementExtraNonce runs under
\* cs_main; or it throws and the catch of MinerThread ends the thread.
\* `valid` is what TestBlockValidity says of the PoW block.
MinerThreadBlockCreated(valid) ==
    /\ minerThread.pc = "create"
    /\ asmPc = "done"
    /\ minerThread' =
          IF CreateNewBlockOutcome(valid) = "template"
          THEN [IncrementExtraNonce(PowBlockTemplate, minerThread.pindexPrev, minerThread)
                   EXCEPT !.pc = "scan"]
          ELSE [minerThread EXCEPT !.pc = "returned"]
    /\ DestroyBlockAssembler
    /\ UNCHANGED <<chainVars, hiveVars>>

\* UpdateTime: nTime moves forward to `now`, never back; nBits is left as it
\* is (the difficulty reset of the testnet is commented out).
UpdateTime(pblock, now) == [pblock EXCEPT !.nTime = Max(pblock.nTime, now)]

\* One round of the scan loop: ScanHash leaves its last nonce in the block and
\* has found a hash at or below the target or not, and then the loop breaks
\* (no peers, mempool updated: `otherBreak`; nonces used up; tip changed;
\* clock ran backwards) or goes on with the time of the block updated.
MinerThreadScan(found, otherBreak) ==
    /\ minerThread.pc = "scan"
    /\ \E nNonce \in (minerThread.pblock.nNonce + 1)..MaxNonce, now \in 0..MaxTime :
          LET scanned == [minerThread.pblock EXCEPT !.nNonce = nNonce]
              breaks == \/ otherBreak
                        \/ nNonce >= MaxNonce
                        \/ minerThread.pindexPrev # TipHeight
          IN  minerThread' =
                  IF found THEN [minerThread EXCEPT !.pc = "stale_check", !.pblock = scanned]
                  ELSE IF breaks THEN [minerThread EXCEPT !.pc = "idle", !.pblock = scanned]
                  ELSE IF now < scanned.nTime
                       THEN [minerThread EXCEPT !.pc = "idle", !.pblock = UpdateTime(scanned, now)]
                  ELSE [minerThread EXCEPT !.pc = "scan", !.pblock = UpdateTime(scanned, now)]
    /\ UNCHANGED minerLeaves

\* Make sure the new block's not stale (under cs_main).
MinerThreadStaleCheck ==
    /\ minerThread.pc = "stale_check"
    /\ minerThread' = [minerThread EXCEPT !.pc =
                          IF IsStale(minerThread.pblock) THEN "idle" ELSE "submit"]
    /\ UNCHANGED minerLeaves

\* ProcessNewBlock for a PoW block: it is connected when it builds on the tip.
ProcessNewPowBlock(pblock) ==
    pblock.hashPrevBlock = BlockHashAt(TipHeight) /\ TipHeight < MaxHeight

\* Process this block the same as if we had received it from another node.
MinerThreadSubmit ==
    /\ minerThread.pc = "submit"
    /\ LET accepted == ProcessNewPowBlock(minerThread.pblock)
       IN  /\ chain' = IF accepted THEN Append(chain, [type |-> "pow", nBits |-> PowBits])
                       ELSE chain
           /\ minerThread' = [minerThread EXCEPT !.pc =
                                 IF accepted /\ minerThread.MineBlocksOnDemand THEN "interrupted"
                                 ELSE "idle"]
    /\ UNCHANGED <<asmVars, dctDb, checkedBlock, checkResult, hiveVars>>

InitPow ==
    /\ \E mp \in HiveMinerMempools : InitAssembler(mp, HiveMinerMaxWeight)
    /\ chain = InitialChain
    /\ dctDb = HonestDCTs
    /\ checkedBlock = NoBlock
    /\ checkResult = "none"
    /\ InitHiveMiner(FALSE, 0)
    /\ \E mineBlocksOnDemand \in BOOLEAN : InitMinerThread(mineBlocksOnDemand)

NextPow ==
    \/ \E available \in BOOLEAN : MinerThreadStart(available)
    \/ MinerThreadReadTip
    \/ MinerThreadCreateNewBlock
    \/ AddPackageSkip
    \/ AddPackageLoopEnd
    \/ AddPackageFeeStop
    \/ AddPackageTestPackageFails
    \/ AddPackageTestTransactionsFails
    \/ AddPackageAdmit
    \/ \E valid \in BOOLEAN : MinerThreadBlockCreated(valid)
    \/ \E found \in BOOLEAN, otherBreak \in BOOLEAN : MinerThreadScan(found, otherBreak)
    \/ MinerThreadStaleCheck
    \/ MinerThreadSubmit
    \/ ConnectPowBlock

SpecPow == InitPow /\ [][NextPow]_vars

(***************************************************************************)
(* BusyDwarves: the binning of the dwarves, as a function of the wallet's  *)
(* DCTs and of -hivecheckthreads, on a machine of BinCores cores.          *)
(***************************************************************************)
\* The dwarf counts of the wallets binned: every list of up to MaxDcts DCTs
\* of up to MaxDwarves dwarves, the DCT counts 3, 3, 3, 3, 4, and wallets
\* with more dwarves than a float counts exactly.
RECURSIVE DwarfCountLists(_)
DwarfCountLists(n) ==
    IF n = 0 THEN {<<>>}
    ELSE {Append(l, c) : l \in DwarfCountLists(n - 1), c \in 1..MaxDwarves}
BinnedDwarfCounts ==
    UNION {DwarfCountLists(n) : n \in 1..MaxDcts}
        \cup {<<3, 3, 3, 3, 4>>, <<FloatSignificand + 1>>, <<FloatSignificand \div 2, 1, FloatSignificand \div 2>>,
              <<5 * (FloatSignificand \div 4) + 1>>}

\* A wallet whose DCTs have these dwarf counts, all mature on InitialChain.
BinnedWallet(counts) == [t \in 1..Len(counts) |-> MakeDCT(0, counts[t] * dwarfCost, 1, 0, {0})]

\* -hivecheckthreads
BinThreadOptions == {-2, 0} \cup 1..(BinCores + 1)

\* BusyDwarves from the count of the mature dwarves to the end of the binning.
BusyDwarvesBinning ==
    /\ hivePc = "binning"
    /\ LET dcts == MatureDCTs(GetDCTs(TipHeight), 1)
           threadCount == ThreadCount(BinCores, hivecheckthreads)
       IN  dwarfBins' = BinDwarves(dcts, 1, 0, <<>>, DwarvesPerBin(TotalDwarves(dcts), threadCount))
    /\ hivePc' = "binned"
    /\ UNCHANGED <<dwarfMasterHeight, pindexPrevHive, binThreads, abortPc, written,
                   minerProofScript, hiveBlock, hiveFixed, hiveGlobals>>
    /\ UNCHANGED <<asmVars, chainVars>>

InitBin ==
    /\ InitAssembler(<<>>, HiveMinerMaxWeight)
    /\ chain = InitialChain
    /\ \E counts \in BinnedDwarfCounts : dctDb = BinnedWallet(counts)
    /\ checkedBlock = NoBlock
    /\ checkResult = "none"
    /\ dwarfMasterHeight = TipHeight
    /\ hivePc = "binning"
    /\ pindexPrevHive = TipHeight
    /\ useEarlyAbortThread = FALSE
    /\ hivecheckthreads \in BinThreadOptions
    /\ dwarfBins = <<>>
    /\ binThreads = <<>>
    /\ solutionFound = FALSE
    /\ earlyAbort = FALSE
    /\ cs_solution_vars = 0
    /\ solvingRange = NoRange
    /\ solvingDwarf = 0
    /\ abortPc = "off"
    /\ written = <<>>
    /\ minerProofScript = <<>>
    /\ hiveBlock = NoBlock
    /\ InitMinerThread(FALSE)

NextBin == BusyDwarvesBinning

SpecBin == InitBin /\ [][NextBin]_vars

\* What the binning worked on and what it made.
BinnedDCTs == MatureDCTs(GetDCTs(TipHeight), 1)
BinnedThreadCount == ThreadCount(BinCores, hivecheckthreads)
RangePositions ==
    UNION { { <<b, r>> : r \in 1..Len(dwarfBins[b]) } : b \in 1..Len(dwarfBins) }
RangeAt(pos) == dwarfBins[pos[1]][pos[2]]
DwarvesInBin(b) ==
    SumOver([r \in 1..Len(dwarfBins[b]) |-> dwarfBins[b][r].count], 1..Len(dwarfBins[b]))

\* C17: the ranges of all bins together partition the dwarves: every range
\* lies within its DCT (0 <= offset, 0 <= count, offset + count <= dwarfCount),
\* two ranges of one DCT share no dwarf, and the ranges of each DCT hold as
\* many dwarves as the DCT has, so that every (DCT, i) with
\* 0 <= i < dwarfCount is in exactly one range of exactly one bin.
C17_BinsPartitionDwarves ==
    hivePc = "binned" =>
        /\ \A pos \in RangePositions :
              \E k \in 1..Len(BinnedDCTs) :
                  /\ RangeAt(pos).txid = BinnedDCTs[k].txid
                  /\ 0 <= RangeAt(pos).offset
                  /\ 0 <= RangeAt(pos).count
                  /\ RangeAt(pos).offset + RangeAt(pos).count <= BinnedDCTs[k].dwarfCount
        /\ \A p \in RangePositions, q \in RangePositions :
              p # q /\ RangeAt(p).txid = RangeAt(q).txid =>
                  \/ RangeAt(p).offset + RangeAt(p).count <= RangeAt(q).offset
                  \/ RangeAt(q).offset + RangeAt(q).count <= RangeAt(p).offset
        /\ \A k \in 1..Len(BinnedDCTs) :
              LET of == { pos \in RangePositions : RangeAt(pos).txid = BinnedDCTs[k].txid }
              IN  SumOver([pos \in of |-> RangeAt(pos).count], of) = BinnedDCTs[k].dwarfCount

\* Two DCTs were binned, one of them split over two bins.
C17_Witness ==
    /\ hivePc = "binned"
    /\ Len(BinnedDCTs) = 2
    /\ Len(dwarfBins) >= 2
    /\ \E pos \in RangePositions : RangeAt(pos).offset > 0

\* ceil(totalDwarves / T) in exact arithmetic
ExactDwarvesPerBin == DwarvesPerBin_Exact(TotalDwarves(BinnedDCTs), BinnedThreadCount)

\* C18: binning with perBin = ceil(totalDwarves / T) produces at most T bins,
\* every bin but the last holds exactly perBin dwarves and the last holds
\* between 1 and perBin; DCT counts 3, 3, 3, 3, 4 and T = 4 give four bins of
\* 4 dwarves each.
C18_AtMostThreadCountBins ==
    hivePc = "binned" =>
        /\ Len(dwarfBins) <= BinnedThreadCount
        /\ \A b \in 1..Len(dwarfBins) - 1 : DwarvesInBin(b) = ExactDwarvesPerBin
        /\ DwarvesInBin(Len(dwarfBins)) \in 1..ExactDwarvesPerBin
        /\ Len(BinnedDCTs) = 5 /\ BinnedThreadCount = 4 =>
              Len(dwarfBins) = 4 /\ \A b \in 1..4 : DwarvesInBin(b) = 4

\* The same, for wallets of fewer than 2^22 dwarves, whose float quotient
\* has at least two binary places after the point.
C18_SmallWallets ==
    TotalDwarves(BinnedDCTs) < FloatSignificand \div 4 => C18_AtMostThreadCountBins

\* The DCT counts 3, 3, 3, 3, 4 were binned for four threads.
C18_ExampleBinned ==
    hivePc = "binned" /\ Len(BinnedDCTs) = 5 /\ BinnedThreadCount = 4

(***************************************************************************)
(* ScanHash: the definition of miner.cpp, which MinerThread calls, and the *)
(* definition of pow.cpp, which creates a RandomX VM for every nonce.      *)
(* The 32-bit nonce is kept as its two 16-bit halves <<high, low>>.        *)
(***************************************************************************)
NonceHalf == 65536
InterruptionInterval == 4096

\* nNonce++ on a uint32_t
NextNonce(nNonce) ==
    LET low == (nNonce[2] + 1) % NonceHalf
    IN  << IF low = 0 THEN (nNonce[1] + 1) % NonceHalf ELSE nNonce[1], low >>

\* hash.ByteAt(31) == 0 && hash.ByteAt(30) == 0, of <<byte 31, byte 30>>
HasZeroBytes(hash) == hash[1] = 0 /\ hash[2] = 0

\* What a PoW hash can have in its bytes 31 and 30.
HashTopBytes == {<<0, 0>>, <<0, 1>>, <<1, 0>>}

\* The nonces ScanHash is started from: MaxScan nonces before a multiple of
\* 4096 that is followed by a 65536-boundary, with and without the wrap of
\* the 32-bit nonce after it.
ScanStarts ==
    {<<high, NonceHalf - InterruptionInterval - n>> : high \in {0, NonceHalf - 1}, n \in 1..MaxScan}

\* One iteration of the loop of ScanHash, of the file given when it was
\* called: `vm` says whether randomx_create_vm returned a VM (pow.cpp only),
\* `hash` is the hash of the header with the new nonce, `interrupted` whether
\* an interruption of the thread is pending at the interruption point.
ScanHashIteration(vm, hash, interrupted) ==
    /\ minerThread.pc = "ScanHash"
    /\ LET nNonce == NextNonce(minerThread.nNonce)
           called == [minerThread EXCEPT !.nNonce = nNonce, !.pblock = [nNonce |-> nNonce]]
       IN  minerThread' =
               IF minerThread.file = "pow.cpp" /\ ~vm
               THEN [called EXCEPT !.pc = "returned", !.fFound = FALSE]
               ELSE IF HasZeroBytes(hash)
               THEN [called EXCEPT !.pc = "returned", !.fFound = TRUE, !.hash = hash, !.phash = hash]
               ELSE IF nNonce[2] = 0
               THEN [called EXCEPT !.pc = "returned", !.fFound = FALSE, !.hash = hash]
               ELSE IF nNonce[2] % InterruptionInterval = 0 /\ interrupted
               THEN [called EXCEPT !.pc = "interrupted", !.hash = hash]
               ELSE [called EXCEPT !.hash = hash]
    /\ UNCHANGED minerLeaves

\* ScanHash is called on a header, from some nonce.
InitScan ==
    /\ \E mp \in HiveMinerMempools : InitAssembler(mp, HiveMinerMaxWeight)
    /\ chain = InitialChain
    /\ dctDb = HonestDCTs
    /\ checkedBlock = NoBlock
    /\ checkResult = "none"
    /\ InitHiveMiner(FALSE, 0)
    /\ \E file \in {"miner.cpp", "pow.cpp"}, nNonce \in ScanStarts :
          minerThread = [pc |-> "ScanHash", file |-> file, nNonce |-> nNonce,
                         pblock |-> [nNonce |-> <<0, 0>>], hash |-> <<0, 0>>,
                         phash |-> <<0, 0>>, fFound |-> FALSE]

NextScan ==
    \E vm \in BOOLEAN, hash \in HashTopBytes, interrupted \in BOOLEAN :
        ScanHashIteration(vm, hash, interrupted)

SpecScan == InitScan /\ [][NextScan]_vars

\* ScanHash returns in this step.
ScanHashReturns == minerThread.pc = "ScanHash" /\ minerThread'.pc = "returned"

\* C15: ScanHash pre-increments the nonce and returns true, with the current
\* nonce, at the first nonce whose hash has bytes 31 and 30 zero, and returns
\* false exactly when it reaches a nonce with (nonce & 0xFFFF) == 0 without
\* such a hit; it returns in no other state, and a hit is tested before the
\* boundary.
C15_ScanHashReturns ==
    [][minerThread.pc = "ScanHash" =>
          /\ minerThread'.nNonce = NextNonce(minerThread.nNonce)
          /\ minerThread'.pblock.nNonce = minerThread'.nNonce
          /\ ScanHashReturns /\ minerThread'.fFound =>
                HasZeroBytes(minerThread'.hash) /\ minerThread'.phash = minerThread'.hash
          /\ ScanHashReturns /\ ~minerThread'.fFound =>
                minerThread'.nNonce[2] = 0 /\ ~HasZeroBytes(minerThread'.hash)
          /\ HasZeroBytes(minerThread'.hash) => ScanHashReturns /\ minerThread'.fFound
          /\ minerThread'.nNonce[2] = 0 => ScanHashReturns]_vars

\* The same of the ScanHash of miner.cpp alone, the one MinerThread calls.
C15_MinerScanHash ==
    [][minerThread.pc = "ScanHash" /\ minerThread.file = "miner.cpp" =>
          /\ minerThread'.nNonce = NextNonce(minerThread.nNonce)
          /\ minerThread'.pblock.nNonce = minerThread'.nNonce
          /\ ScanHashReturns /\ minerThread'.fFound =>
                HasZeroBytes(minerThread'.hash) /\ minerThread'.phash = minerThread'.hash
          /\ ScanHashReturns /\ ~minerThread'.fFound =>
                minerThread'.nNonce[2] = 0 /\ ~HasZeroBytes(minerThread'.hash)
          /\ HasZeroBytes(minerThread'.hash) => ScanHashReturns /\ minerThread'.fFound
          /\ minerThread'.nNonce[2] = 0 => ScanHashReturns]_vars

\* ScanHash of miner.cpp has returned false at the wrap of the 32-bit nonce.
C15_MinerWitness ==
    /\ minerThread.pc = "returned"
    /\ minerThread.file = "miner.cpp"
    /\ ~minerThread.fFound
    /\ minerThread.nNonce = <<0, 0>>

(***************************************************************************)
(* Properties of the miners (checked under SpecHive and SpecPow).          *)
(***************************************************************************)
\* CreateNewBlock has built the block of this cycle, and the tip is the one
\* BusyDwarves started from.
BlockBuiltOnUnchangedTip ==
    hivePc = "create" /\ asmPc = "done" /\ TipHeight = pindexPrevHive

\* C5: the block that BusyDwarves builds with the proof script of a solution
\* found by CheckBin over the wallet's mature DCTs, on an unchanged tip, is
\* accepted by CheckHiveProof.
C5_MinersProofAccepted ==
    BlockBuiltOnUnchangedTip => CheckHiveProof(HiveBlockTemplate) = "true"

\* A block built from a solution that is not dwarf 0, of a DCT with a
\* community contribution, with transactions of the mempool in it.
C5_Witness ==
    /\ BlockBuiltOnUnchangedTip
    /\ solvingDwarf > 0
    /\ solvingRange.communityContrib
    /\ Len(vtx) > 0

\* The tip moved while the cycle ran: the proof no longer checks and
\* TestBlockValidity makes CreateNewBlock throw.
C5_ChangedTipRejected ==
    hivePc = "create" /\ asmPc = "done" /\ TipHeight # pindexPrevHive
        => CheckHiveProof(HiveBlockTemplate) = "false"

\* C8: within one check cycle with two or more worker threads the solution
\* record (solvingRange, solvingDwarf) is written at most once.
C8_RecordWrittenAtMostOnce ==
    Len(binThreads) >= 2 => Len(written) <= 1

\* C9: BusyDwarves reads solutionFound, solvingRange and solvingDwarf only
\* after every worker of the cycle has terminated, and if solutionFound is set
\* the record is the pair one worker wrote, with solvingDwarf inside
\* [offset, offset + count) of solvingRange and its dwarf hash below the target.
C9_RecordReadAfterJoin ==
    hivePc = "inspect" =>
        /\ \A b \in Workers : binThreads[b].pc = "done"
        /\ cs_solution_vars = 0
        /\ solutionFound =>
              /\ \E k \in 1..Len(written) :
                    solvingRange = written[k].range /\ solvingDwarf = written[k].dwarf
              /\ solvingDwarf >= solvingRange.offset
              /\ solvingDwarf < solvingRange.offset + solvingRange.count
              /\ BinDwarfHash(solvingRange, solvingDwarf) < HiveTarget

\* BusyDwarves is about to read a record that two workers have written.
C9_Witness ==
    hivePc = "inspect" /\ solutionFound /\ Len(written) >= 2

\* C11: BusyDwarves lets no exception escape to its caller; on each of its
\* failures, a TestBlockValidity failure inside CreateNewBlock included, it
\* returns false.
C11_BusyDwarvesNeverThrows == hivePc # "threw"

\* The only exception that leaves BusyDwarves is the std::runtime_error
\* CreateNewBlock throws when TestBlockValidity fails on the Hive block;
\* DwarfMaster catches it and goes on polling.  On a stale block and on a
\* rejected submission BusyDwarves returns.
C11_ThrowsOnlyFromCreateNewBlock ==
    [][/\ hivePc' = "threw" /\ hivePc # "threw" =>
             /\ hivePc = "create" /\ asmPc = "done"
             /\ ~TestBlockValidity(HiveBlockTemplate)
       /\ hivePc = "threw" => hivePc' \in {"threw", "sleep"}
       /\ hivePc \in {"stale_check", "submit"} => hivePc' # "threw"]_vars

\* MinerThread's call of IncrementExtraNonce, and whether the block's
\* hashPrevBlock differs from that of the block of the previous call.
IncrementExtraNonceCalled == minerThread.pc = "create" /\ minerThread'.pc = "scan"
PrevBlockChanged == minerThread'.pblock.hashPrevBlock # minerThread.pblock.hashPrevBlock

NonceSearch == minerThread.pc \in {"scan", "stale_check", "submit"}

\* The block about to be passed to ProcessNewBlock has the merkle root of its
\* transactions.
MerkleRootOfSubmitted ==
    /\ minerThread.pc = "submit" =>
          minerThread.pblock.hashMerkleRoot = BlockMerkleRoot(PowBlockTxs(minerThread.pblock))
    /\ hivePc = "submit" => hiveBlock.hashMerkleRoot = BlockMerkleRoot(hiveBlock.vtx)

\* C14: every block passed to ProcessNewBlock by MinerThread or BusyDwarves
\* has hashMerkleRoot equal to the merkle root of its transaction list, and
\* during the PoW nonce search the coinbase, the transaction list,
\* hashPrevBlock, hashMerkleRoot and nBits are unchanged: only nNonce and
\* nTime are mutated.
C14_MerkleRootAndSearchFrame ==
    [][/\ MerkleRootOfSubmitted
       /\ NonceSearch =>
             /\ PowBlockTxs(minerThread'.pblock) = PowBlockTxs(minerThread.pblock)
             /\ minerThread'.pblock.hashPrevBlock = minerThread.pblock.hashPrevBlock
             /\ minerThread'.pblock.hashMerkleRoot = minerThread.pblock.hashMerkleRoot
             /\ minerThread'.pblock.nBits = minerThread.pblock.nBits]_vars

\* The same for the block of BusyDwarves, as a state predicate.
C14_HiveMerkleRoot ==
    hivePc \in {"stale_check", "submit"} =>
        hiveBlock.hashMerkleRoot = BlockMerkleRoot(hiveBlock.vtx)

\* MinerThread submits its second block on a tip, with transactions of the
\* mempool, after a search that moved nNonce and nTime.
C14_Witness ==
    /\ minerThread.pc = "submit"
    /\ minerThread.pblock.nExtraNonce = 2
    /\ Len(minerThread.pblock.vtx) > 0
    /\ minerThread.pblock.nNonce = MaxNonce
    /\ minerThread.pblock.nTime > 0

\* C10: no block is passed to ProcessNewBlock, by MinerThread or by
\* BusyDwarves, whose hashPrevBlock differs from the hash of the active chain
\* tip at the moment of submission.
C10_NoStaleBlockSubmitted ==
    [][/\ minerThread.pc = "submit" /\ minerThread'.pc # "submit"
             => minerThread.pblock.hashPrevBlock = BlockHashAt(TipHeight)
       /\ hivePc = "submit" /\ hivePc' # "submit"
             => hiveBlock.hashPrevBlock = BlockHashAt(TipHeight)]_vars

\* The stale checks themselves let no stale block through.
C10_FreshWhenChecked ==
    [][/\ minerThread.pc = "stale_check" /\ minerThread'.pc = "submit"
             => minerThread.pblock.hashPrevBlock = BlockHashAt(TipHeight)
       /\ hivePc = "stale_check" /\ hivePc' = "submit"
             => hiveBlock.hashPrevBlock = BlockHashAt(TipHeight)]_vars

(***************************************************************************)
(* The proof script as an encoding: BusyDwarves from the inspection of the *)
(* solution to the assembled script, over nonces and heights whose bytes   *)
(* take the edge values, and the fields CheckHiveProof reads back.         *)
(***************************************************************************)
\* Values of a uint32_t: each byte at 0, at 255 and across a carry, all four
\* bytes different, and the largest value below the sign bit (the integers
\* of the checker end there, as does Coin::nHeight, a 31-bit field).
ProofUints == {0, 1, 255, 256, 65535, 65536, 16777215, 16777216, 67305985, 2147483647}

\* The wallet's DCT of the solution: with or without a community fund output.
ProofWallet(height, key, contrib) ==
    1 :> MakeDCT(height, 3 * dwarfCost, key, IF contrib THEN 3 ELSE 0, {0, 1})

\* BusyDwarves after its threads have joined with a solution recorded.
InitProof ==
    /\ InitAssembler(<<>>, HiveMinerMaxWeight)
    /\ chain = InitialChain
    /\ \E height \in ProofUints, key \in Keys, contrib \in BOOLEAN :
          /\ dctDb = ProofWallet(height, key, contrib)
          /\ solvingRange = [txid |-> TxidStr(1), rewardAddress |-> key,
                             communityContrib |-> contrib, offset |-> 0, count |-> 3]
    /\ checkedBlock = NoBlock
    /\ checkResult = "none"
    /\ dwarfMasterHeight = TipHeight
    /\ hivePc = "inspect"
    /\ pindexPrevHive = TipHeight
    /\ useEarlyAbortThread = FALSE
    /\ hivecheckthreads = 1
    /\ dwarfBins = <<>>
    /\ binThreads = <<>>
    /\ solutionFound = TRUE
    /\ earlyAbort = FALSE
    /\ cs_solution_vars = 0
    /\ solvingDwarf \in ProofUints
    /\ abortPc = "off"
    /\ written = <<>>
    /\ minerProofScript = <<>>
    /\ hiveBlock = NoBlock
    /\ InitMinerThread(FALSE)

NextProof == BusyDwarvesInspect

SpecProof == InitProof /\ [][NextProof]_vars

\* What BusyDwarves encoded: the coin's height and the signature.
EncodedDctHeight == GetCoin(uint256S(solvingRange.txid), 0).nHeight
EncodedMessageSig == SignCompact(solvingRange.rewardAddress, MessageHash(HiveRandString))

\* C20: the proof script built by BusyDwarves is exactly 144 bytes long, and
\* the fields CheckHiveProof reads at offsets 3, 8, 12, 14 and 79 are the
\* dwarf nonce, the DCT height, the community contribution flag, the 64-byte
\* txid and the 65-byte signature that BusyDwarves encoded.
C20_ProofScriptRoundTrip ==
    hivePc = "assembled" =>
        /\ Len(minerProofScript) = MinProofScriptSize
        /\ ProofNonce(minerProofScript) = solvingDwarf
        /\ ProofClaimedHeight(minerProofScript) = EncodedDctHeight
        /\ ProofCommunityContrib(minerProofScript) = solvingRange.communityContrib
        /\ ProofTxidStr(minerProofScript) = solvingRange.txid
        /\ Len(ProofTxidStr(minerProofScript)) = 64
        /\ ProofMessageSig(minerProofScript) = EncodedMessageSig
        /\ Len(ProofMessageSig(minerProofScript)) = 65

\* A script is assembled for the largest nonce, a height of four different
\* bytes and a set flag.
C20_Witness ==
    /\ hivePc = "assembled"
    /\ solvingDwarf = 2147483647
    /\ EncodedDctHeight = 67305985
    /\ solvingRange.communityContrib

\* The same with a cleared flag and a nonce whose low bytes are all 255.
C20_ClearedFlagAssembled ==
    /\ hivePc = "assembled"
    /\ solvingDwarf = 16777215
    /\ EncodedDctHeight = 256
    /\ ~solvingRange.communityContrib
    /\ At(minerProofScript, 12) = OP_FALSE

(***************************************************************************)
(* PoW retargeting: CreateNewBlock's call of GetNextWorkRequired, over     *)
(* chains whose window holds blocks of the initial distribution, Hive and  *)
(* Pop blocks, and timespans below, in and above the clamp.                *)
(***************************************************************************)
\* Heights of pindexLast: too low for a window, and with the window reaching
\* or not reaching the last block of the initial distribution.
RetargetHeights == {5, nPastBlocks, nPastBlocks + 1, nPastBlocks + 2}
\* Targets of the PoW blocks after the initial distribution.
RetargetLevels == {powLimit, 24000}
\* Block times advance by `step` per block, the two top blocks `off` later.
RetargetSteps == {0, 1, 3}
RetargetOffsets == {-5, 0, 1, 7, 8, 9}
RetargetMidHeight == 12

RetargetChain(height, levelEven, levelOdd, hiveTip, midKind, step, off) ==
    [k \in 1..(height + 1) |->
        LET h == k - 1
            type == IF h = height /\ hiveTip THEN "hive"
                    ELSE IF h = RetargetMidHeight THEN midKind
                    ELSE "pow"
        IN  [type |-> type,
             nBits |-> IF type = "hive" THEN GetCompact(powLimitHive)
                       ELSE IF h <= lastInitialDistributionHeight
                            THEN GetCompact(powLimitInitialDistribution)
                       ELSE IF type = "pop" THEN GetCompact(powLimit)
                       ELSE IF h % 2 = 0 THEN GetCompact(levelEven)
                       ELSE GetCompact(levelOdd),
             nTime |-> 100 + step * h + (IF h >= height - 1 THEN off ELSE 0)]]

InitRetarget ==
    /\ InitAssembler(<<>>, 0)
    /\ \E height \in RetargetHeights, levelEven \in RetargetLevels, levelOdd \in RetargetLevels,
          hiveTip \in BOOLEAN, midKind \in {"pow", "hive", "pop"},
          step \in RetargetSteps, off \in RetargetOffsets :
          chain = RetargetChain(height, levelEven, levelOdd, hiveTip, midKind, step, off)
    /\ dctDb = HonestDCTs
    /\ checkedBlock = NoBlock
    /\ checkResult = "none"
    /\ InitHiveMiner(FALSE, 0)
    /\ \E late \in {1, 11}, allowMin \in BOOLEAN :
          minerThread = [pc |-> "GetNextWorkRequired",
                         fPowAllowMinDifficultyBlocks |-> allowMin,
                         pblock |-> [nTime |-> IndexAt(TipHeight).nTime + late, nBits |-> 0]]

\* CreateNewBlock: pblock->nBits = GetNextWorkRequired(pindexPrev, pblock, ...)
CreateNewBlockGetNextWorkRequired ==
    /\ minerThread.pc = "GetNextWorkRequired"
    /\ LET nBits == GetNextWorkRequired(TipHeight, minerThread.pblock.nTime,
                                        minerThread.fPowAllowMinDifficultyBlocks)
       IN  minerThread' =
               IF nBits = AssertionFailed THEN [minerThread EXCEPT !.pc = "abort"]
               ELSE [minerThread EXCEPT !.pc = "retargeted", !.pblock.nBits = nBits]
    /\ UNCHANGED <<asmVars, chainVars, hiveVars>>

NextRetarget == CreateNewBlockGetNextWorkRequired

SpecRetarget == InitRetarget /\ [][NextRetarget]_vars

\* GetNextWorkRequired has returned from its retargeting branch: pindexLast
\* is at or above the initial-distribution height and the min-difficulty
\* exception did not apply.
Retargeting ==
    /\ minerThread.pc = "retargeted"
    /\ TipHeight >= lastInitialDistributionHeight
    /\ ~(/\ minerThread.fPowAllowMinDifficultyBlocks
         /\ minerThread.pblock.nTime > IndexAt(TipHeight).nTime + nPowTargetSpacing * 10)
\* The target the returned nBits stand for, and the moving average.
RetargetResult == SetCompact(minerThread.pblock.nBits)
AverageTarget == PastTargets(TipHeight).bnPastTargetAvg
\* averageTarget * ts fits the width of arith_uint256.
ProductFits == AverageTarget <= (ArithRange - 1) \div RetargetTimespan(TipHeight)

\* C23 as stated: above the initial-distribution height and outside the
\* min-difficulty exception the result of GetNextWorkRequired is never above
\* 3 times nor below one third of the average of the last 24 targets
\* (integer division), and never above powLimit.
C23_WithinThirdAndTriple ==
    Retargeting =>
        /\ RetargetResult <= 3 * AverageTarget
        /\ RetargetResult >= AverageTarget \div 3
        /\ RetargetResult <= powLimit

\* C23, amended: there the timespan is clamped into [targetTimespan/3,
\* targetTimespan*3] and the result is the compact form of the smaller of
\* powLimit and averageTarget * ts / targetTimespan (the product wrapped to
\* the width of arith_uint256); it is never above 3 times the average nor
\* above powLimit, and when the product fits the width and the quotient is
\* not above powLimit it is not below the compact form of one third of the
\* average.
C23_RetargetWithinClampAndLimit ==
    Retargeting =>
        LET nTargetTimespan == nPastBlocks * nPowTargetSpacing
            ts == RetargetTimespan(TipHeight)
            bnNew == MulWrap(AverageTarget, ts) \div nTargetTimespan
        IN  /\ ts >= nTargetTimespan \div 3 /\ ts <= nTargetTimespan * 3
            /\ RetargetResult
                  = SetCompact(GetCompact(IF bnNew > powLimit THEN powLimit ELSE bnNew))
            /\ RetargetResult <= 3 * AverageTarget
            /\ RetargetResult <= powLimit
            /\ ProductFits /\ bnNew <= powLimit
                  => RetargetResult >= SetCompact(GetCompact(AverageTarget \div 3))

\* A retarget at the lower clamp whose product fits and whose quotient is
\* below powLimit: the result is one third of the average, cut to the three
\* bytes of the compact form.
C23_Witness ==
    /\ Retargeting
    /\ RetargetTimespan(TipHeight) = (nPastBlocks * nPowTargetSpacing) \div 3
    /\ ProductFits
    /\ Retargeted(TipHeight) < powLimit
    /\ RetargetResult < AverageTarget \div 3
    /\ RetargetResult = SetCompact(GetCompact(AverageTarget \div 3))

\* Reachable: the limit cuts a result below one third of the average; the
\* product wraps; the upper clamp applies to a small average; an assertion fails.
C23_LimitBelowThird ==
    /\ Retargeting
    /\ RetargetResult = SetCompact(GetCompact(powLimit))
    /\ AverageTarget \div 3 > powLimit
C23_ProductWraps ==
    Retargeting /\ ~ProductFits
C23_UpperClampApplied ==
    /\ Retargeting
    /\ IndexAt(SkipHiveMined(TipHeight)).nTime - IndexAt(PastTargets(TipHeight).pindex).nTime
           > 3 * nPastBlocks * nPowTargetSpacing
    /\ RetargetResult = 3 * AverageTarget
    /\ RetargetResult < powLimit
C23_AssertionFails ==
    minerThread.pc = "abort" /\ TipHeight >= lastInitialDistributionHeight

(***************************************************************************)
(* The hashrate meter of MinerThread, run by several miner threads: every  *)
(* read and write of nHPSTimerStart, nHashCounter and dHashesPerSec is a   *)
(* step of its own.                                                        *)
(***************************************************************************)
\* if (GetTimeMillis() - nHPSTimerStart > 4000)
MeterInterval == 4000

MeterThreads == 1..NumMiners

\* What the step of a thread at a position reads and writes, and whether the
\* step is inside LOCK(cs).
MeterReads(pc) ==
    IF pc \in {"meter", "check", "check2"} THEN {"nHPSTimerStart"}
    ELSE IF pc = "add_read" THEN {"nHashCounter"}
    ELSE IF pc = "compute" THEN {"nHashCounter", "nHPSTimerStart"}
    ELSE {}
MeterWrites(pc) ==
    IF pc \in {"init_timer", "reset_timer"} THEN {"nHPSTimerStart"}
    ELSE IF pc \in {"init_counter", "add_write", "reset_counter"} THEN {"nHashCounter"}
    ELSE IF pc = "compute" THEN {"dHashesPerSec"}
    ELSE {}

\* One step of the metering code of miner thread t, which has just done
\* nHashesDone hashes.
MinerThreadMeter(t, nHashesDone) ==
    /\ minerThread.pc = "metering"
    /\ LET m == minerThread
           self == m.threads[t]
           goto(pc) == [m EXCEPT !.threads[t].pc = pc]
           elapsed == m.now - m.nHPSTimerStart
       IN  minerThread' =
             CASE self.pc = "meter" ->
                    IF m.nHPSTimerStart = 0 THEN goto("init_timer") ELSE goto("add_read")
               [] self.pc = "init_timer" ->
                    [goto("init_counter") EXCEPT !.nHPSTimerStart = m.now]
               [] self.pc = "init_counter" ->
                    [goto("check") EXCEPT !.nHashCounter = 0]
               [] self.pc = "add_read" ->
                    [goto("add_write") EXCEPT !.threads[t].register = m.nHashCounter]
               [] self.pc = "add_write" ->
                    [goto("check") EXCEPT !.nHashCounter = self.register + nHashesDone,
                                          !.hashesMetered = @ + nHashesDone]
               [] self.pc = "check" ->
                    IF elapsed > MeterInterval THEN goto("lock") ELSE goto("scan")
               [] self.pc = "lock" /\ m.cs = 0 ->
                    [goto("check2") EXCEPT !.cs = t]
               [] self.pc = "check2" ->
                    IF elapsed > MeterInterval THEN goto("compute") ELSE goto("unlock")
               [] self.pc = "compute" ->
                    [goto("reset_timer") EXCEPT
                        !.dHashesPerSec = [hashes |-> 1000 * m.nHashCounter, millis |-> elapsed]]
               [] self.pc = "reset_timer" ->
                    [goto("reset_counter") EXCEPT !.nHPSTimerStart = m.now]
               [] self.pc = "reset_counter" ->
                    [goto("unlock") EXCEPT !.nHashCounter = 0, !.hashesMetered = 0]
               [] self.pc = "unlock" ->
                    [goto("scan") EXCEPT !.cs = 0]
               [] OTHER -> m
    /\ minerThread' # minerThread
    /\ UNCHANGED <<asmVars, chainVars, hiveVars>>

\* ScanHash returns to miner thread t, which comes to the meter again.
MinerThreadScanned(t) ==
    /\ minerThread.pc = "metering"
    /\ minerThread.threads[t].pc = "scan"
    /\ minerThread.threads[t].rounds < MaxMeterRounds
    /\ minerThread' = [minerThread EXCEPT !.threads[t].pc = "meter",
                                          !.threads[t].rounds = @ + 1]
    /\ UNCHANGED <<asmVars, chainVars, hiveVars>>

\* GetTimeMillis() moves on.
ClockAdvances ==
    /\ minerThread.pc = "metering"
    /\ minerThread.now < MaxClock
    /\ minerThread' = [minerThread EXCEPT !.now = @ + MeterInterval \div 2 + 1]
    /\ UNCHANGED <<asmVars, chainVars, hiveVars>>

\* MineCoins has started the miner threads; each has returned from its
\* first ScanHash.
InitMeter ==
    /\ InitAssembler(<<>>, 0)
    /\ chain = InitialChain
    /\ dctDb = HonestDCTs
    /\ checkedBlock = NoBlock
    /\ checkResult = "none"
    /\ InitHiveMiner(FALSE, 0)
    /\ minerThread = [pc |-> "metering", now |-> 1, cs |-> 0,
                      nHPSTimerStart |-> 0, nHashCounter |-> 0,
                      dHashesPerSec |-> [hashes |-> 0, millis |-> 1],
                      hashesMetered |-> 0,
                      threads |-> [t \in MeterThreads |->
                                      [pc |-> "meter", register |-> 0, rounds |-> 1]]]

NextMeter ==
    \/ \E t \in MeterThreads : MinerThreadMeter(t, 1)
    \/ \E t \in MeterThreads : MinerThreadScanned(t)
    \/ ClockAdvances

SpecMeter == InitMeter /\ [][NextMeter]_vars

\* Miner threads t and u are both about to access the same variable of the
\* hashrate state, t writing it, and not both inside LOCK(cs).
MeterRace(t, u) ==
    LET pt == minerThread.threads[t].pc
        pu == minerThread.threads[u].pc
    IN  /\ t # u
        /\ MeterWrites(pt) \cap (MeterReads(pu) \cup MeterWrites(pu)) # {}

\* C25: with two or more PoW miner threads, every read and write of
\* nHashCounter, nHPSTimerStart and dHashesPerSec is made by a thread that
\* holds the hashrate lock, so no two threads access that state concurrently
\* with one of them writing.
C25_HashrateStateGuarded ==
    minerThread.pc = "metering" =>
        /\ \A t \in MeterThreads :
              minerThread.threads[t].pc \in {"init_timer", "init_counter", "add_read", "add_write"}
                  => minerThread.cs = t
        /\ \A t, u \in MeterThreads : ~MeterRace(t, u)

\* Reachable: an addition to nHashCounter is lost (the counter holds less
\* than was added since its last reset), and a thread inside the lock
\* divides by an interval that another thread has restarted.
C25_LostUpdate ==
    /\ minerThread.pc = "metering"
    /\ \A t \in MeterThreads : minerThread.threads[t].pc = "scan"
    /\ minerThread.nHashCounter < minerThread.hashesMetered
C25_LockedPartHolds ==
    minerThread.pc = "metering" =>
        \A t \in MeterThreads :
            minerThread.threads[t].pc \in {"check2", "compute", "reset_timer", "reset_counter", "unlock"}
                => minerThread.cs = t

(***************************************************************************)
(* The locks of the miner: cs_main, mempool.cs, the wallet's cs_wallet,     *)
(* cs_solution_vars and the static cs of the hashrate meter, as the PoW     *)
(* miner threads, DwarfMaster with BusyDwarves, the CheckBin workers and    *)
(* the AbortWatchThread take and leave them.  The threads run their loops   *)
(* for ever.                                                                *)
(***************************************************************************)
Locks == {"cs_main", "mempool.cs", "cs_wallet", "cs_solution_vars", "cs"}
NoThread == <<"none", 0>>
DwarfMasterThread == <<"DwarfMaster", 0>>
WatchThread == <<"AbortWatchThread", 0>>
PowThreads == {<<"MinerThread", i>> : i \in 1..NumMiners}
BinThreads == {<<"CheckBin", b>> : b \in 1..LockBins}
LockThreads == PowThreads \cup {DwarfMasterThread, WatchThread} \cup BinThreads

\* LOCK2(cs_main, mempool.cs) of CreateNewBlock and LOCK2(cs_main,
\* pwallet->cs_wallet) of BusyDwarves: the first lock is taken first.
CreateNewBlockLocks == <<"cs_main", "mempool.cs">>
BusyDwarvesProofLocks_WalletFirst == <<"cs_wallet", "cs_main">>
BusyDwarvesProofLocks == <<"cs_main", "cs_wallet">>

\* Where the scan loop of MinerThread goes after a ScanHash: to the stale
\* check of a found block, into the hashrate meter, or out of the loop to
\* the next template.
ScanHashNext == {"stale_check", "hashmeter", "CreateNewBlock"}

\* The positions at which a thread takes a lock: the lock, and the position
\* it comes to with the lock held.
AcquireAt ==
    [pc \in {"CreateNewBlock", "CreateNewBlock_mempool", "IncrementExtraNonce",
             "stale_check", "hashmeter",
             "DwarfMaster", "sleep", "proof", "proof_wallet",
             "HiveCreateNewBlock", "HiveCreateNewBlock_mempool", "CheckHiveProof",
             "hive_stale_check", "write_out", "watch"} |->
        CASE pc = "CreateNewBlock"             -> <<CreateNewBlockLocks[1], "CreateNewBlock_mempool">>
          [] pc = "CreateNewBlock_mempool"     -> <<CreateNewBlockLocks[2], "TestBlockValidity">>
          [] pc = "IncrementExtraNonce"        -> <<"cs_main", "IncrementExtraNonce_locked">>
          [] pc = "stale_check"                -> <<"cs_main", "stale_check_locked">>
          [] pc = "hashmeter"                  -> <<"cs", "hashmeter_locked">>
          [] pc = "DwarfMaster"                -> <<"cs_main", "DwarfMaster_locked">>
          [] pc = "sleep"                      -> <<"cs_main", "sleep_locked">>
          [] pc = "proof"                      -> <<BusyDwarvesProofLocks[1], "proof_wallet">>
          [] pc = "proof_wallet"               -> <<BusyDwarvesProofLocks[2], "proof_signed">>
          [] pc = "HiveCreateNewBlock"         -> <<CreateNewBlockLocks[1], "HiveCreateNewBlock_mempool">>
          [] pc = "HiveCreateNewBlock_mempool" -> <<CreateNewBlockLocks[2], "CheckHiveProof">>
          [] pc = "CheckHiveProof"             -> <<"cs_main", "CheckHiveProof_locked">>
          [] pc = "hive_stale_check"           -> <<"cs_main", "hive_stale_check_locked">>
          [] pc = "write_out"                  -> <<"cs_solution_vars", "write_out_locked">>
          [] pc = "watch"                      -> <<"cs_main", "watch_locked">>]

\* The positions at which a scope ends or is left by break or return: the
\* locks of the scope, and the positions the thread may come to.
ReleaseAt ==
    [pc \in {"TestBlockValidity", "IncrementExtraNonce_locked",
             "stale_check_locked", "hashmeter_locked",
             "DwarfMaster_locked", "sleep_locked", "proof_signed",
             "CheckHiveProof_locked", "HiveTestBlockValidity",
             "hive_stale_check_locked", "write_out_locked", "watch_locked"} |->
        CASE pc = "TestBlockValidity"          -> <<CreateNewBlockLocks, {"IncrementExtraNonce"}>>
          [] pc = "IncrementExtraNonce_locked" -> <<<<"cs_main">>, ScanHashNext>>
          [] pc = "stale_check_locked"         -> <<<<"cs_main">>, {"CreateNewBlock"}>>
          [] pc = "hashmeter_locked"           -> <<<<"cs">>, ScanHashNext>>
          [] pc = "DwarfMaster_locked"         -> <<<<"cs_main">>, {"sleep"}>>
          [] pc = "sleep_locked"               -> <<<<"cs_main">>, {"sleep", "BusyDwarves"}>>
          [] pc = "proof_signed"               -> <<BusyDwarvesProofLocks, {"HiveCreateNewBlock", "sleep"}>>
          [] pc = "CheckHiveProof_locked"      -> <<<<"cs_main">>, {"HiveTestBlockValidity"}>>
          [] pc = "HiveTestBlockValidity"      -> <<CreateNewBlockLocks, {"hive_stale_check", "sleep"}>>
          [] pc = "hive_stale_check_locked"    -> <<<<"cs_main">>, {"sleep"}>>
          [] pc = "write_out_locked"           -> <<<<"cs_solution_vars">>, {"returned"}>>
          [] pc = "watch_locked"               -> <<<<"cs_main">>, {"watched"}>>]

\* Thread t enters a critical section; the mutexes are recursive.
EnterCritical(t) ==
    /\ minerThread.pc = "locking"
    /\ minerThread.at[t] \in DOMAIN AcquireAt
    /\ LET m == minerThread
           cs == AcquireAt[m.at[t]][1]
       IN  /\ m.owner[cs] \in {NoThread, t}
           /\ minerThread' = [m EXCEPT !.owner[cs] = t,
                                       !.depth[cs] = @ + 1,
                                       !.held[t] = IF m.owner[cs] = t THEN @ ELSE Append(@, cs),
                                       !.at[t] = AcquireAt[m.at[t]][2]]
    /\ UNCHANGED <<asmVars, chainVars, hiveVars>>

\* Thread t leaves the scope it is in.
LeaveCritical(t) ==
    /\ minerThread.pc = "locking"
    /\ minerThread.at[t] \in DOMAIN ReleaseAt
    /\ LET m == minerThread
           left == {ReleaseAt[m.at[t]][1][i] : i \in 1..Len(ReleaseAt[m.at[t]][1])}
           last == {cs \in left : m.depth[cs] = 1}
           IsKept(cs) == cs \notin last
       IN  \E to \in ReleaseAt[m.at[t]][2] :
              minerThread' =
                [m EXCEPT !.owner = [cs \in Locks |-> IF cs \in last THEN NoThread ELSE m.owner[cs]],
                          !.depth = [cs \in Locks |-> IF cs \in left THEN m.depth[cs] - 1 ELSE m.depth[cs]],
                          !.held[t] = SelectSeq(@, IsKept),
                          !.solutionFound = @ \/ m.at[t] = "write_out_locked",
                          !.at[t] = to]
    /\ UNCHANGED <<asmVars, chainVars, hiveVars>>

\* BusyDwarves between its locks: it returns early or starts the workers
\* and the watcher, joins the workers, stops and joins the watcher, and
\* goes on to the proof when there is a solution.
BusyDwarvesBetweenLocks ==
    LET t == DwarfMasterThread
        m == minerThread
        inspect == IF m.solutionFound THEN "proof" ELSE "sleep"
    IN  /\ m.pc = "locking"
        /\ UNCHANGED <<asmVars, chainVars, hiveVars>>
        /\ \/ /\ m.at[t] = "BusyDwarves"
              /\ minerThread' = [m EXCEPT !.at[t] = "sleep"]
           \/ /\ m.at[t] = "BusyDwarves"
              /\ \E hiveearlyout \in BOOLEAN :
                   minerThread' =
                       [m EXCEPT !.solutionFound = FALSE,
                                 !.earlyAbort = FALSE,
                                 !.useEarlyAbortThread = hiveearlyout,
                                 !.at = [u \in LockThreads |->
                                           IF u \in BinThreads THEN "CheckBin"
                                           ELSE IF u = WatchThread /\ hiveearlyout
                                                THEN "AbortWatchThread"
                                           ELSE IF u = t THEN "join"
                                           ELSE m.at[u]]]
           \/ /\ m.at[t] = "join"
              /\ \A b \in BinThreads : m.at[b] = "returned"
              /\ minerThread' =
                   IF ~m.useEarlyAbortThread THEN [m EXCEPT !.at[t] = inspect]
                   ELSE IF m.earlyAbort THEN [m EXCEPT !.at[t] = "sleep"]
                   ELSE [m EXCEPT !.earlyAbort = TRUE, !.at[t] = "join_abort"]
           \/ /\ m.at[t] = "join_abort"
              /\ m.at[WatchThread] = "returned"
              /\ minerThread' = [m EXCEPT !.at[t] = inspect]

\* CheckBin: the worker runs out of dwarves or sees a flag and returns, or
\* finds a solution and goes to write it out.
CheckBinBetweenLocks(b) ==
    /\ minerThread.pc = "locking"
    /\ minerThread.at[b] = "CheckBin"
    /\ \E to \in {"returned", "write_out"} :
          minerThread' = [minerThread EXCEPT !.at[b] = to]
    /\ UNCHANGED <<asmVars, chainVars, hiveVars>>

\* AbortWatchThread: the test of the flags, and the comparison of the
\* heights after the tip was read.
AbortWatchThreadBetweenLocks ==
    LET m == minerThread
        w == WatchThread
    IN  /\ m.pc = "locking"
        /\ UNCHANGED <<asmVars, chainVars, hiveVars>>
        /\ \/ /\ m.at[w] = "AbortWatchThread"
              /\ minerThread' = [m EXCEPT !.at[w] = IF m.solutionFound \/ m.earlyAbort
                                                     THEN "returned" ELSE "watch"]
           \/ /\ m.at[w] = "watched"
              /\ minerThread' = [m EXCEPT !.at[w] = "AbortWatchThread"]
           \/ /\ m.at[w] = "watched"
              /\ minerThread' = [m EXCEPT !.earlyAbort = TRUE, !.at[w] = "returned"]

\* MineCoins has started the miner threads and DwarfMaster.
InitLocks ==
    /\ InitAssembler(<<>>, 0)
    /\ chain = InitialChain
    /\ dctDb = HonestDCTs
    /\ checkedBlock = NoBlock
    /\ checkResult = "none"
    /\ InitHiveMiner(FALSE, 0)
    /\ minerThread = [pc |-> "locking",
                      owner |-> [cs \in Locks |-> NoThread],
                      depth |-> [cs \in Locks |-> 0],
                      held |-> [t \in LockThreads |-> <<>>],
                      at |-> [t \in LockThreads |->
                                IF t \in PowThreads THEN "CreateNewBlock"
                                ELSE IF t = DwarfMasterThread THEN "DwarfMaster"
                                ELSE "returned"],
                      solutionFound |-> FALSE,
                      earlyAbort |-> FALSE,
                      useEarlyAbortThread |-> FALSE]

NextLocks ==
    \/ \E t \in LockThreads : EnterCritical(t)
    \/ \E t \in LockThreads : LeaveCritical(t)
    \/ BusyDwarvesBetweenLocks
    \/ \E b \in BinThreads : CheckBinBetweenLocks(b)
    \/ AbortWatchThreadBetweenLocks

SpecLocks == InitLocks /\ [][NextLocks]_vars

\* The threads that thread t cannot go on without: the owner of the lock it
\* is waiting for, or the unfinished threads it is joining.
WaitsFor(t) ==
    LET m == minerThread
        pc == m.at[t]
    IN  IF pc \in DOMAIN AcquireAt
        THEN {m.owner[AcquireAt[pc][1]]} \ {NoThread, t}
        ELSE IF pc = "join" THEN {b \in BinThreads : m.at[b] # "returned"}
        ELSE IF pc = "join_abort" THEN {w \in {WatchThread} : m.at[w] # "returned"}
        ELSE {}

\* The threads of S that wait for a thread of S, taken n times over: what is
\* left after as many rounds as there are threads waits in a circle.
RECURSIVE WaitingAmong(_, _)
WaitingAmong(S, n) ==
    IF n = 0 THEN S
    ELSE WaitingAmong({t \in S : WaitsFor(t) \cap S # {}}, n - 1)
Deadlocked == WaitingAmong(LockThreads, Cardinality(LockThreads)) # {}

\* C26: no set of threads waits in a circle; a thread that holds more than
\* one lock took cs_main first; and a thread that is about to take cs_main
\* holds neither cs_solution_vars nor the lock of the hashrate meter.
C26_LockOrderNoDeadlock ==
    minerThread.pc = "locking" =>
        /\ ~Deadlocked
        /\ \A t \in LockThreads :
              /\ Len(minerThread.held[t]) > 1 => minerThread.held[t][1] = "cs_main"
              /\ (minerThread.at[t] \in DOMAIN AcquireAt /\ AcquireAt[minerThread.at[t]][1] = "cs_main")
                    => \A i \in 1..Len(minerThread.held[t]) :
                          minerThread.held[t][i] \notin {"cs_solution_vars", "cs"}

\* Reachable: BusyDwarves holds cs_main and mempool.cs and has taken cs_main
\* again in CheckHiveProof, a PoW miner waits for cs_main and another is
\* inside the lock of the hashrate meter.
C26_Witness ==
    /\ minerThread.pc = "locking"
    /\ minerThread.at[DwarfMasterThread] = "CheckHiveProof_locked"
    /\ minerThread.held[DwarfMasterThread] = <<"cs_main", "mempool.cs">>
    /\ minerThread.depth["cs_main"] = 2
    /\ \E t, u \in PowThreads :
          /\ WaitsFor(t) = {DwarfMasterThread}
          /\ minerThread.owner["cs"] = u

(***************************************************************************)
(* The abort flags of a Hive cycle with -hiveearlyout: AbortWatchThread,    *)
(* the poll of CheckBin every HiveCheckPollInterval dwarves, and the join   *)
(* of BusyDwarves.  A worker takes one step for the test at the top of an   *)
(* iteration and one for the hash; hashedAfterFlag counts the dwarves it    *)
(* hashed after a flag was set.                                             *)
(***************************************************************************)
PollWorkers == {1, 2}

\* checkCount++ % 1000 == 0
IsPollIteration_FirstOnly(checkCount) == checkCount = 0
IsPollIteration(checkCount) == checkCount % HiveCheckPollInterval = 0

\* A worker at the start of a bin of PollTail dwarves, a worker that has
\* hashed all but PollTail of the dwarves before its second poll, and a
\* worker that has just polled for the first time.
FreshWorker ==
    [pc |-> "check", i |-> 0, last |-> PollTail, checkCount |-> 0, hashedAfterFlag |-> 0]
WorkerBeforePoll ==
    [pc |-> "check", i |-> HiveCheckPollInterval - PollTail, last |-> HiveCheckPollInterval + PollTail,
     checkCount |-> HiveCheckPollInterval - PollTail, hashedAfterFlag |-> 0]
WorkerAfterPoll ==
    [pc |-> "hash", i |-> 0, last |-> HiveCheckPollInterval + PollTail,
     checkCount |-> 1, hashedAfterFlag |-> 0]

\* CheckBin: the top of an iteration of the inner loop.
CheckBinPoll(b) ==
    /\ minerThread.pc = "polling"
    /\ minerThread.bins[b].pc = "check"
    /\ LET m == minerThread
           w == m.bins[b]
       IN  minerThread' =
             [m EXCEPT !.bins[b].checkCount = @ + 1,
                       !.bins[b].pc = IF IsPollIteration(w.checkCount) /\ (m.solutionFound \/ m.earlyAbort)
                                      THEN "returned" ELSE "hash"]
    /\ UNCHANGED <<asmVars, chainVars, hiveVars>>

\* CheckBin: the hash of dwarf i and its comparison with the target.
CheckBinHashDwarf(b, found) ==
    /\ minerThread.pc = "polling"
    /\ minerThread.bins[b].pc = "hash"
    /\ LET m == minerThread
           w == m.bins[b]
           counted == [m EXCEPT !.bins[b].hashedAfterFlag =
                                   IF m.solutionFound \/ m.earlyAbort THEN @ + 1 ELSE @]
       IN  minerThread' =
             IF found THEN [counted EXCEPT !.bins[b].pc = "write_out"]
             ELSE [counted EXCEPT !.bins[b].i = @ + 1,
                                  !.bins[b].pc = IF w.i + 1 < w.last THEN "check" ELSE "returned"]
    /\ UNCHANGED <<asmVars, chainVars, hiveVars>>

\* CheckBin: LOCK(cs_solution_vars); solutionFound.store(true); ...; return
CheckBinWriteOut(b) ==
    /\ minerThread.pc = "polling"
    /\ minerThread.bins[b].pc = "write_out"
    /\ minerThread' = [minerThread EXCEPT !.solutionFound = TRUE, !.bins[b].pc = "returned"]
    /\ UNCHANGED <<asmVars, chainVars, hiveVars>>

\* AbortWatchThread: the test of the flags, the read of the tip height and
\* the comparison with the height of the cycle.
AbortWatchThreadStep ==
    /\ minerThread.pc = "polling"
    /\ LET m == minerThread
       IN  minerThread' =
             CASE m.watch.pc = "test" ->
                    [m EXCEPT !.watch.pc = IF m.solutionFound \/ m.earlyAbort THEN "returned" ELSE "read"]
               [] m.watch.pc = "read" ->
                    [m EXCEPT !.watch.pc = "compare", !.watch.newHeight = m.tip]
               [] m.watch.pc = "compare" ->
                    IF m.watch.newHeight # m.height
                    THEN [m EXCEPT !.earlyAbort = TRUE, !.watch.pc = "returned", !.watch.fired = TRUE]
                    ELSE [m EXCEPT !.watch.pc = "test"]
               [] OTHER -> m
    /\ minerThread' # minerThread
    /\ UNCHANGED <<asmVars, chainVars, hiveVars>>

\* A block is connected while the cycle runs.
TipMovesDuringCycle ==
    /\ minerThread.pc = "polling"
    /\ minerThread.tip = minerThread.height
    /\ minerThread' = [minerThread EXCEPT !.tip = @ + 1]
    /\ UNCHANGED <<asmVars, chainVars, hiveVars>>

\* Mutant: the watcher is joined without earlyAbort having been stored.
BusyDwarvesJoinPolled_NoStop ==
    /\ minerThread.pc = "polling"
    /\ LET m == minerThread
       IN  \/ /\ m.master = "join"
              /\ \A b \in PollWorkers : m.bins[b].pc = "returned"
              /\ minerThread' = IF m.earlyAbort THEN [m EXCEPT !.master = "returned"]
                                ELSE [m EXCEPT !.master = "join_abort"]
           \/ /\ m.master = "join_abort"
              /\ m.watch.pc = "returned"
              /\ minerThread' = [m EXCEPT !.master = "inspect"]
    /\ UNCHANGED <<asmVars, chainVars, hiveVars>>

\* BusyDwarves: the join of the workers, the test of earlyAbort, and the
\* stop and join of the watcher.
BusyDwarvesJoinPolled ==
    /\ minerThread.pc = "polling"
    /\ LET m == minerThread
       IN  \/ /\ m.master = "join"
              /\ \A b \in PollWorkers : m.bins[b].pc = "returned"
              /\ minerThread' = IF m.earlyAbort THEN [m EXCEPT !.master = "returned"]
                                ELSE [m EXCEPT !.earlyAbort = TRUE, !.master = "join_abort"]
           \/ /\ m.master = "join_abort"
              /\ m.watch.pc = "returned"
              /\ minerThread' = [m EXCEPT !.master = "inspect"]
    /\ UNCHANGED <<asmVars, chainVars, hiveVars>>

\* BusyDwarves has started the workers and the watcher; the first worker is
\* at one of the three places above, and where it has polled already the tip
\* has moved and the watcher has fired since.
InitPoll ==
    /\ InitAssembler(<<>>, 0)
    /\ chain = InitialChain
    /\ dctDb = HonestDCTs
    /\ checkedBlock = NoBlock
    /\ checkResult = "none"
    /\ InitHiveMiner(FALSE, 0)
    /\ \E first \in {FreshWorker, WorkerBeforePoll, WorkerAfterPoll} :
          LET fired == first = WorkerAfterPoll
          IN  minerThread =
                [pc |-> "polling", height |-> TipHeight,
                 tip |-> IF fired THEN TipHeight + 1 ELSE TipHeight,
                 solutionFound |-> FALSE, earlyAbort |-> fired,
                 watch |-> [pc |-> IF fired THEN "returned" ELSE "test",
                            newHeight |-> IF fired THEN TipHeight + 1 ELSE TipHeight,
                            fired |-> fired],
                 bins |-> [b \in PollWorkers |-> IF b = 1 THEN first ELSE FreshWorker],
                 master |-> "join"]

NextPoll ==
    \/ \E b \in PollWorkers : CheckBinPoll(b)
    \/ \E b \in PollWorkers : \E found \in BOOLEAN : CheckBinHashDwarf(b, found)
    \/ \E b \in PollWorkers : CheckBinWriteOut(b)
    \/ AbortWatchThreadStep
    \/ TipMovesDuringCycle
    \/ BusyDwarvesJoinPolled

\* The watcher is a thread of its own that sleeps a millisecond a round: it
\* goes on whatever the other threads do.
SpecPoll == InitPoll /\ [][NextPoll]_vars /\ WF_vars(AbortWatchThreadStep)

C28_RNGBranchNoEffect ==
    [][(minerThread.pc = "idle" /\ minerThread' # minerThread)
          => minerThread' = [minerThread EXCEPT !.pindexPrev = TipHeight, !.pc = "tip_read"]]_vars

\* Reachable: on a tip whose height is a multiple of nRNGBlockSpacing the
\* thread has ended in the division by totalVotes = 0.
C28_DividedByZero ==
    /\ minerThread.pc = "crashed"
    /\ TipHeight % nRNGBlockSpacing = 0

\* On every other tip, and where the division does not trap, the path
\* changes nothing.
C28_NoEffectOffRNGHeights ==
    [][(minerThread.pc = "idle" /\ minerThread' # minerThread /\ minerThread'.pc # "crashed")
          => /\ minerThread' = [minerThread EXCEPT !.pindexPrev = TipHeight, !.pc = "tip_read"]
             /\ UNCHANGED <<asmVars, chainVars, hiveVars>>]_vars

(***************************************************************************)
(* addPackageTxs on mempools of three entries, the third a child of the     *)
(* two others.                                                              *)
(***************************************************************************)
TwoParentMempools ==
    { WithAncestorState(<< MempoolEntry(a, {}), MempoolEntry(b, {}), MempoolEntry(c, {1, 2}) >>) :
        a \in TxKinds, b \in TxKinds, c \in TxKinds }

InitTwoParents ==
    /\ \E mp \in TwoParentMempools, o \in MaxWeightOptions : InitAssembler(mp, o)
    /\ chain = InitialChain
    /\ dctDb = HonestDCTs
    /\ checkedBlock = NoBlock
    /\ checkResult = "none"
    /\ InitHiveMiner(FALSE, 0)
    /\ InitMinerThread(FALSE)

SpecTwoParents == InitTwoParents /\ [][NextAsm]_vars

\* C29: within one call of addPackageTxs an entry that is in failedTx is not
\* the candidate of an iteration again, whether the candidate comes from the
\* mapTx iterator or from mapModifiedTx.
C29_FailedNeverCandidateAgain ==
    Evaluating => CandidateIter \notin failedTx

\* Reachable: an entry of failedTx is the candidate again, out of
\* mapModifiedTx, with a package size that still counts an ancestor that is
\* in the block.
C29_StaleAggregatesEvaluated ==
    /\ Evaluating
    /\ fUsingModified
    /\ CandidateIter \in failedTx
    /\ packageSize > SumOver([u \in DOMAIN mempool |-> mempool[u].size], CandidatePackage)

\* The mapTx iterator does skip the entries of failedTx.
C29_IteratorSkipsFailed ==
    (Evaluating /\ ~fUsingModified) => CandidateIter \notin failedTx

(***************************************************************************)
(* addPackageTxs on a mempool of more than MAX_CONSECUTIVE_FAILURES         *)
(* entries.                                                                 *)
(***************************************************************************)
\* Entries without parents, best ancestor score first: two witness
\* transactions, then plain ones, two DCTs and one below the minimum fee.
LongMempoolSize == MAX_CONSECUTIVE_FAILURES + FailTail
LongMempool ==
    WithAncestorState(
        [i \in 1..LongMempoolSize |->
            MempoolEntry(KindWithFee(IF i <= 2 THEN 6000
                                     ELSE IF i <= LongMempoolSize - 3 THEN 5000
                                     ELSE IF i < LongMempoolSize THEN 3000
                                     ELSE 500), {})])
IsSortedByAncestorScore(mp) ==
    \A i \in 1..(Len(mp) - 1) :
        CompareTxMemPoolEntryByAncestorFee(CTxMemPoolModifiedEntry(mp, i),
                                           CTxMemPoolModifiedEntry(mp, i + 1))
\* mapTx.get<ancestor_score>(): the entries as they are when they are in that
\* order already.
IndexOfSorted(mp) ==
    IF IsSortedByAncestorScore(mp) THEN [i \in 1..Len(mp) |-> i] ELSE AncestorScoreIndex(mp)

InitLong ==
    /\ \/ \E o \in MaxWeightOptions :
             InitAssemblerIndexed(LongMempool, IndexOfSorted(LongMempool), o)
       \/ \E mp \in HiveMinerMempools : InitAssembler(mp, HiveMinerMaxWeight)
    /\ chain = InitialChain
    /\ dctDb = HonestDCTs
    /\ checkedBlock = NoBlock
    /\ checkResult = "none"
    /\ InitHiveMiner(FALSE, 0)
    /\ InitMinerThread(FALSE)

SpecLong == InitLong /\ [][NextAsm]_vars

\* The block is close to full, and the candidate of the iteration passes the
\* fee test.
CloseToFull == nBlockWeight > nBlockMaxWeight - 4000
FeeTestPassed == Evaluating /\ ~(packageFees < GetFee(blockMinFeeRate, packageSize))

\* C30 as stated: the loop is left as soon as 1000 admission failures in a
\* row have occurred with the block close to full; every failed admission
\* test adds one to the count, and only an admitted package resets it.
C30_StopsAt1000AnyFailureCounts ==
    /\ []((asmPc = "loop" /\ CloseToFull) => nConsecutiveFailed < 1000)
    /\ [][(FeeTestPassed /\ ~(/\ TestPackage(packageSize, packageSigOpsCost)
                              /\ TestPackageTransactions(CandidatePackage)))
             => nConsecutiveFailed' = nConsecutiveFailed + 1]_vars
    /\ [][(asmPc = "loop" /\ nConsecutiveFailed' < nConsecutiveFailed)
             => (nConsecutiveFailed' = 0 /\ inBlock' # inBlock)]_vars

\* C30 amended: the loop is left at the first failure of TestPackage that
\* makes the count exceed 1000 (the 1001st in a row) with the block close to
\* full; only a failed TestPackage adds one to the count, a failed
\* TestPackageTransactions leaves it as it is, and only an admitted package
\* resets it.
C30_StopsAfter1000TestPackageFailures ==
    /\ []((asmPc = "loop" /\ CloseToFull) => nConsecutiveFailed <= 1000)
    /\ [][(FeeTestPassed /\ ~TestPackage(packageSize, packageSigOpsCost))
             => /\ nConsecutiveFailed' = nConsecutiveFailed + 1
                /\ (asmPc' = "done") = (nConsecutiveFailed' > 1000 /\ CloseToFull)]_vars
    /\ [][(/\ FeeTestPassed
           /\ TestPackage(packageSize, packageSigOpsCost)
           /\ ~TestPackageTransactions(CandidatePackage))
             => (nConsecutiveFailed' = nConsecutiveFailed /\ asmPc' = "loop")]_vars
    /\ [][(asmPc = "loop" /\ nConsecutiveFailed' < nConsecutiveFailed)
             => (nConsecutiveFailed' = 0 /\ inBlock' # inBlock)]_vars

\* Reachable: addPackageTxs has given up after 1001 failures in a row, with
\* entries of the mempool not looked at, and failures of
\* TestPackageTransactions before the admitted package.
C30_Witness ==
    /\ asmPc = "done"
    /\ nConsecutiveFailed = 1001
    /\ CloseToFull
    /\ mi <= Len(mempool)
    /\ inBlock # {}
    /\ 1 \notin inBlock

(***************************************************************************)
(* The minimum feerate of addPackageTxs (checked under SpecAsm).            *)
(***************************************************************************)
\* The package of an entry as it stands: the entry and its ancestors that are
\* not in the block, with the fee and the size summed over them.
PackageNotInBlock(t) == ({t} \cup CalculateMemPoolAncestors(mempool, t)) \ inBlock
MeetsMinFeeRate(S) ==
    ~(SumOver([u \in DOMAIN mempool |-> mempool[u].fee], S)
        < GetFee(blockMinFeeRate, SumOver([u \in DOMAIN mempool |-> mempool[u].size], S)))
\* The iterator of mapTx is past the entry, and the entry has no modified
\* entry: it was a candidate from mapTx and failed an admission test.
FailedFromMapTx(t) ==
    /\ t \notin DOMAIN mapModifiedTx
    /\ \E i \in 1..(mi - 1) : i <= Len(mempool) /\ mapTxByAncestorScore[i] = t
BelowMinFee == Evaluating /\ packageFees < GetFee(blockMinFeeRate, packageSize)

\* C31 as stated: the loop ends at the first candidate below the minimum
\* feerate, every admitted package meets the minimum feerate, and at that end
\* no transaction outside the block and outside failedTx has a package that
\* meets it.
C31_FeeStopLeavesNothingAbove ==
    /\ [][BelowMinFee =>
            /\ asmPc' = "done"
            /\ inBlock' = inBlock
            /\ \A t \in DOMAIN mempool \ (inBlock \cup failedTx) :
                  ~MeetsMinFeeRate(PackageNotInBlock(t))]_vars
    /\ [][(asmPc = "loop" /\ inBlock' # inBlock) => MeetsMinFeeRate(inBlock' \ inBlock)]_vars

\* C31 amended: as C31, for the transactions that are neither in the block nor
\* in failedTx and that have not failed an admission test as a candidate from
\* mapTx (such a failure is not recorded in failedTx).
C31_FeeStopLeavesNoCandidateAbove ==
    /\ [][BelowMinFee =>
            /\ asmPc' = "done"
            /\ inBlock' = inBlock
            /\ \A t \in DOMAIN mempool \ (inBlock \cup failedTx) :
                  ~FailedFromMapTx(t) => ~MeetsMinFeeRate(PackageNotInBlock(t))]_vars
    /\ [][(asmPc = "loop" /\ inBlock' # inBlock) => MeetsMinFeeRate(inBlock' \ inBlock)]_vars

\* Reachable: the loop has ended at a candidate from mapTx below the minimum
\* feerate, with a package admitted before it.
C31_Witness ==
    /\ asmPc = "done"
    /\ inBlock # {}
    /\ mi > 1 /\ mi - 1 <= Len(mempool)
    /\ LET t == mapTxByAncestorScore[mi - 1]
       IN  /\ t \notin inBlock \cup failedTx \cup DOMAIN mapModifiedTx
           /\ ~MeetsMinFeeRate(PackageNotInBlock(t))

(***************************************************************************)
(* The inner loop of MinerThread: ScanHash by calls, and the tests that     *)
(* follow it.  The thread's record holds what the loop reads: the node      *)
(* count, whether mempool.GetTransactionsUpdated() differs from             *)
(* nTransactionsUpdatedLast, whether chainActive.Tip() differs from          *)
(* pindexPrev, the clock and the median time past of pindexPrev.            *)
(***************************************************************************)
\* The values of the clock: the start of a search and the seconds around one
\* minute after it.
SearchTimes == {0} \cup 59..(59 + MaxTime)
\* The high halves of the nonces the model follows a search through: the
\* first and the last MaxScan of them.
FollowedHigh == 0..(MaxScan - 1) \cup (NonceHalf - MaxScan)..(NonceHalf - 1)
\* The low halves at which a call of ScanHash comes back with a hash found.
FoundLow == {1, NonceHalf - 1}

\* What a call of ScanHash can return from a nonce: <<fFound, nNonce>>, a
\* hash with two zero bytes at a later nonce before the next multiple of
\* 65536 or at it, or false at that multiple.
ScanHashCall(nNonce) ==
    LET boundary == << (nNonce[1] + 1) % NonceHalf, 0 >>
    IN  { <<TRUE, <<nNonce[1], low>> >> : low \in { l \in FoundLow : l > nNonce[2] } }
            \cup { <<TRUE, boundary>>, <<FALSE, boundary>> }

\* Mutant: the test is nNonce > 0xffffffff, which no nonce passes.
NonceSpaceMaxedOut_Never(nNonce) == nNonce[1] > NonceHalf - 1
\* nNonce >= 0xffff0000
NonceSpaceMaxedOut(nNonce) == nNonce[1] >= NonceHalf - 1

\* UpdateTime's return value: nNewTime - nOldTime.
UpdateTimeReturn(nOldTime, nMedianTimePast, now) == Max(nMedianTimePast + 1, now) - nOldTime

\* Mutant: the mempool test breaks at 60 seconds.
BreakInnerLoop_AtSixty(thread) ==
    \/ ~thread.MineBlocksOnDemand /\ thread.nodeCount = 0
    \/ NonceSpaceMaxedOut(thread.nNonce)
    \/ thread.mempoolUpdated /\ thread.clock - thread.nStart >= 60
    \/ thread.tipChanged
    \/ UpdateTimeReturn(thread.nTime, thread.nMedianTimePast, thread.clock) < 0

\* "Check whether to break or continue", after the interruption point.
BreakInnerLoop(thread) ==
    \/ ~thread.MineBlocksOnDemand /\ thread.nodeCount = 0
    \/ NonceSpaceMaxedOut(thread.nNonce)
    \/ thread.mempoolUpdated /\ thread.clock - thread.nStart > 60
    \/ thread.tipChanged
    \/ UpdateTimeReturn(thread.nTime, thread.nMedianTimePast, thread.clock) < 0

\* The outer loop: wait for the network unless on regtest, read the mempool
\* counter and the tip, create the block, and start the search at nonce 0.
MinerThreadBeginSearch ==
    /\ minerThread.pc = "wait_network"
    /\ minerThread.MineBlocksOnDemand \/ minerThread.nodeCount > 0
    /\ minerThread' = [minerThread EXCEPT
                          !.pc = "search",
                          !.mempoolUpdated = FALSE,
                          !.tipChanged = FALSE,
                          !.nStart = minerThread.clock,
                          !.nTime = Max(minerThread.nMedianTimePast + 1, minerThread.clock),
                          !.nNonce = <<0, 0>>]
    /\ UNCHANGED minerLeaves

\* bool fFound = ScanHash(pblock, nNonce, &hash), and the test of the hash
\* against the target; `interrupted`: the call ended at its interruption point.
MinerThreadScanHash(good, interrupted) ==
    /\ minerThread.pc = "search"
    /\ minerThread.nNonce[1] \in FollowedHigh
    /\ \E call \in ScanHashCall(minerThread.nNonce) :
          minerThread' =
              IF interrupted THEN [minerThread EXCEPT !.pc = "interrupted"]
              ELSE [minerThread EXCEPT !.nNonce = call[2],
                                       !.pc = IF call[1] /\ good THEN "found" ELSE "checking"]
    /\ UNCHANGED minerLeaves

\* A good solution: the stale test under cs_main.
MinerThreadFoundStale ==
    /\ minerThread.pc = "found"
    /\ minerThread' = [minerThread EXCEPT
                          !.pc = IF minerThread.tipChanged THEN "wait_network" ELSE "process"]
    /\ UNCHANGED minerLeaves

\* ProcessNewBlock: the block is accepted when it builds on the tip; the
\* inner loop is left either way, and on regtest the thread ends.
MinerThreadProcessNewBlock ==
    /\ minerThread.pc = "process"
    /\ minerThread' = [minerThread EXCEPT
                          !.pc = IF ~minerThread.tipChanged /\ minerThread.MineBlocksOnDemand
                                 THEN "interrupted" ELSE "wait_network",
                          !.tipChanged = TRUE]
    /\ UNCHANGED minerLeaves

\* The interruption point and the tests at the end of the inner loop; the
\* time of the block is updated when none of them breaks.
MinerThreadBreakOrContinue(interrupted) ==
    /\ minerThread.pc = "checking"
    /\ minerThread' =
          IF interrupted THEN [minerThread EXCEPT !.pc = "interrupted"]
          ELSE IF BreakInnerLoop(minerThread) THEN [minerThread EXCEPT !.pc = "wait_network"]
          ELSE [minerThread EXCEPT
                   !.pc = "search",
                   !.nTime = Max(minerThread.nTime,
                                 Max(minerThread.nMedianTimePast + 1, minerThread.clock))]
    /\ UNCHANGED minerLeaves

\* What the other threads of the node do while the miner runs: peers come
\* and go, the mempool is updated, the tip changes, the clock is set.
SearchEnvironmentStep ==
    /\ minerThread.pc \in {"wait_network", "search", "checking", "found", "process"}
    /\ \/ minerThread' = [minerThread EXCEPT !.nodeCount = 1 - minerThread.nodeCount]
       \/ minerThread' = [minerThread EXCEPT !.mempoolUpdated = TRUE]
       \/ minerThread' = [minerThread EXCEPT !.tipChanged = TRUE]
       \/ \E now \in SearchTimes \ {minerThread.clock} :
             minerThread' = [minerThread EXCEPT !.clock = now]
    /\ UNCHANGED minerLeaves

\* A search in progress at the first or at one of the last nonce ranges.
InitSearch ==
    /\ InitAssembler(<<>>, HiveMinerMaxWeight)
    /\ chain = InitialChain
    /\ dctDb = HonestDCTs
    /\ checkedBlock = NoBlock
    /\ checkResult = "none"
    /\ InitHiveMiner(FALSE, 0)
    /\ \E regtest \in BOOLEAN, mtp \in {-1, 59}, high \in {0, NonceHalf - MaxScan} :
          minerThread = [pc |-> "search", MineBlocksOnDemand |-> regtest, nodeCount |-> 1,
                         mempoolUpdated |-> FALSE, tipChanged |-> FALSE, clock |-> 0,
                         nStart |-> 0, nTime |-> Max(mtp + 1, 0), nMedianTimePast |-> mtp,
                         nNonce |-> <<high, 0>>]

NextSearch ==
    \/ MinerThreadBeginSearch
    \/ \E good \in BOOLEAN, interrupted \in BOOLEAN : MinerThreadScanHash(good, interrupted)
    \/ MinerThreadFoundStale
    \/ MinerThreadProcessNewBlock
    \/ \E interrupted \in BOOLEAN : MinerThreadBreakOrContinue(interrupted)
    \/ SearchEnvironmentStep

SpecSearch == InitSearch /\ [][NextSearch]_vars

\* The thread leaves the tests at the end of the inner loop in this step.
LeavesTests == minerThread.pc = "checking" /\ minerThread'.pc # "checking"
SameTemplate ==
    /\ minerThread'.nNonce = minerThread.nNonce
    /\ minerThread'.nStart = minerThread.nStart

WorkersStart == binThreads = <<>> /\ binThreads' # <<>>

\* C33 as stated: once the watcher has set earlyAbort in a cycle, BusyDwarves
\* neither hands a block to ProcessNewBlock nor leaves by an exception in
\* that cycle (it returns false), whether or not a worker has recorded a
\* solution; and both flags are false when the workers of a cycle start.
C33_AbortedCycleSubmitsNothing ==
    /\ [][abortPc = "fired" => hivePc' \notin {"submit", "threw"}]_vars
    /\ [][WorkersStart => (~solutionFound' /\ ~earlyAbort')]_vars

\* What the code does keep: when the watcher has set earlyAbort before
\* BusyDwarves tests the flag after the joins of the workers, BusyDwarves
\* returns false at that test and no block is submitted, whether or not a
\* worker has recorded a solution; and both flags are false when the workers
\* of a cycle start.
C33_AbortSeenAtTestReturnsFalse ==
    /\ [][(hivePc = "join" /\ abortPc = "fired" /\ hivePc' # "join")
             => (hivePc' = "sleep" /\ binThreads' = <<>> /\ chain' = chain)]_vars
    /\ [][WorkersStart => (~solutionFound' /\ ~earlyAbort')]_vars

\* Reachable: the workers have returned, one of them with a solution, and the
\* watcher has set earlyAbort before the test of BusyDwarves.
C33_AbortSeenWithSolution ==
    /\ hivePc = "join"
    /\ AllWorkersJoined
    /\ abortPc = "fired"
    /\ solutionFound
    /\ written # <<>>

\* Reachable: the watcher has set earlyAbort after that test, and BusyDwarves
\* is about to hand the block of the cycle to ProcessNewBlock.
C33_AbortMissedBlockSubmitted ==
    /\ hivePc = "submit"
    /\ abortPc = "fired"
    /\ ~IsStale(hiveBlock)

(***************************************************************************)
(* The height in the coinbase of the PoW miner (checked under SpecPow).     *)
(***************************************************************************)
\* The miner has a block with the scriptSig of IncrementExtraNonce.
HasSearchBlock == minerThread.pc \in {"scan", "stale_check", "submit"}
\* The height in the coinbase is one more than the height of the block that
\* hashPrevBlock names.
CoinbaseHeightFitsParent(pblock) ==
    \E h \in 0..TipHeight :
        /\ BlockHashAt(h) = pblock.hashPrevBlock
        /\ pblock.nHeight = h + 1

\* C34: the height IncrementExtraNonce writes into the coinbase is one plus
\* the height of the block named by hashPrevBlock, whenever the tip changes,
\* so no block handed to ProcessNewBlock has a coinbase height that does not
\* fit its parent.
C34_CoinbaseHeightFitsParent ==
    HasSearchBlock => CoinbaseHeightFitsParent(minerThread.pblock)

\* Reachable: a block that passes the stale test, with the height of an
\* older tip in its coinbase, is about to be handed to ProcessNewBlock.
C34_WrongHeightSubmitted ==
    /\ minerThread.pc = "submit"
    /\ ~IsStale(minerThread.pblock)
    /\ minerThread.pblock.nHeight = TipHeight

\* When the tip read by MinerThread is the tip CreateNewBlock builds on, the
\* height fits.
C34_FitsOnUnchangedTip ==
    (HasSearchBlock /\ BlockHashAt(minerThread.pindexPrev) = minerThread.pblock.hashPrevBlock)
        => CoinbaseHeightFitsParent(minerThread.pblock)

(***************************************************************************)
(* Several MinerThreads and the static hashPrevBlock of IncrementExtraNonce.*)
(* GenerateRings starts nThreads threads of MinerThread; nExtraNonce is a   *)
(* local of each thread, the static of IncrementExtraNonce is one object    *)
(* for all of them, and every call runs under cs_main.  The transactions of *)
(* the templates play no part here: the assembler stays idle.               *)
(***************************************************************************)
MinerThreadIds == 1..NumMiners

\* One thread: its local counter, its tip snapshot, its template, and (for
\* the claims) the hashPrevBlock of the block of its own previous call.
FreshMinerThread ==
    [pc |-> "idle", nExtraNonce |-> 0, pindexPrev |-> 0, pblock |-> NoPowBlock,
     calls |-> 0, ownPrevBlock |-> UnknownHash]

\* CBlockIndex* pindexPrev = chainActive.Tip() and CreateNewBlock, which
\* reads the tip itself.
MinerThreadsReadTip(i) ==
    /\ minerThread.threads[i].pc = "idle"
    /\ minerThread' = [minerThread EXCEPT !.threads[i].pc = "tip_read",
                                          !.threads[i].pindexPrev = TipHeight]
    /\ UNCHANGED minerLeaves

MinerThreadsCreateNewBlock(i) ==
    /\ minerThread.threads[i].pc = "tip_read"
    /\ minerThread' = [minerThread EXCEPT !.threads[i].pc = "created",
                                          !.threads[i].pblock = PowBlockTemplate]
    /\ UNCHANGED minerLeaves

\* LOCK(cs_main); IncrementExtraNonce(pblock, pindexPrev, nExtraNonce): the
\* call sees the thread's counter and the one static of the function.
MinerThreadsIncrementExtraNonce(i) ==
    LET t == minerThread.threads[i]
        called == IncrementExtraNonce(t.pblock, t.pindexPrev,
                                      [t EXCEPT !.pc = "idle"] @@ [hashPrevBlock |-> minerThread.hashPrevBlock])
    IN  /\ t.pc = "created"
        /\ t.calls < MaxCalls
        /\ called.nExtraNonce <= MaxExtraNonce + 1
        /\ minerThread' = [minerThread EXCEPT
               !.hashPrevBlock = called.hashPrevBlock,
               !.threads[i] = [t EXCEPT !.pc = "idle",
                                        !.nExtraNonce = called.nExtraNonce,
                                        !.pblock = called.pblock,
                                        !.calls = @ + 1,
                                        !.ownPrevBlock = t.pblock.hashPrevBlock]]
        /\ UNCHANGED minerLeaves

InitThreads ==
    /\ \E mp \in HiveMinerMempools : InitAssembler(mp, HiveMinerMaxWeight)
    /\ chain = InitialChain
    /\ dctDb = HonestDCTs
    /\ checkedBlock = NoBlock
    /\ checkResult = "none"
    /\ InitHiveMiner(FALSE, 0)
    /\ minerThread = [pc |-> "threads", hashPrevBlock |-> UnknownHash,
                      threads |-> [i \in MinerThreadIds |-> FreshMinerThread]]

NextThreads ==
    \/ \E i \in MinerThreadIds : MinerThreadsReadTip(i)
    \/ \E i \in MinerThreadIds : MinerThreadsCreateNewBlock(i)
    \/ \E i \in MinerThreadIds : MinerThreadsIncrementExtraNonce(i)
    \/ ConnectPowBlock

SpecThreads == InitThreads /\ [][NextThreads]_vars

\* Thread i's call of IncrementExtraNonce, on a block whose hashPrevBlock
\* differs from that of the block of the thread's own previous call.
ThreadCalled(i) == minerThread'.threads[i].calls = minerThread.threads[i].calls + 1
OwnPrevBlockChanged(i) ==
    /\ minerThread.threads[i].calls > 0
    /\ minerThread.threads[i].pblock.hashPrevBlock # minerThread.threads[i].ownPrevBlock

\* C35: with two or more miner threads, a call of IncrementExtraNonce by a
\* thread whose block has a hashPrevBlock different from the one of the
\* thread's own previous call resets the thread's extra-nonce (it is 1 after
\* the call), whatever the other threads have called in between.
C35_ResetDependsOnOwnCallsOnly ==
    [][\A i \in MinerThreadIds :
          (ThreadCalled(i) /\ OwnPrevBlockChanged(i))
              => minerThread'.threads[i].nExtraNonce = 1]_vars

\* Reachable: a thread has called twice on the same hashPrevBlock and its
\* extra-nonce is 1 again, another thread having called in between: the
\* thread searches the block of its previous call a second time.
C35_SameBlockTwice ==
    \E i \in MinerThreadIds :
        /\ minerThread.threads[i].calls = 2
        /\ minerThread.threads[i].pc = "idle"
        /\ minerThread.threads[i].pblock.hashPrevBlock = minerThread.threads[i].ownPrevBlock
        /\ minerThread.threads[i].nExtraNonce = 1

\* The decision follows the last call of any thread: the extra-nonce is reset
\* exactly when the block's hashPrevBlock differs from the static.
C35_ResetFollowsSharedStatic ==
    [][\A i \in MinerThreadIds :
          ThreadCalled(i) =>
              minerThread'.threads[i].nExtraNonce =
                  IF minerThread.threads[i].pblock.hashPrevBlock # minerThread.hashPrevBlock
                  THEN 1 ELSE minerThread.threads[i].nExtraNonce + 1]_vars

(***************************************************************************)
(* The nonces of one template (checked under SpecSearchFair: SpecSearch     *)
(* with the miner thread scheduled fairly; the thread runs at the lowest    *)
(* priority but is never suspended for good).                               *)
(***************************************************************************)
SpecSearchFair ==
    /\ SpecSearch
    /\ WF_vars(\E good \in BOOLEAN, interrupted \in BOOLEAN : MinerThreadScanHash(good, interrupted))
    /\ WF_vars(\E interrupted \in BOOLEAN : MinerThreadBreakOrContinue(interrupted))

\* The order of the 32-bit nonces, on their halves.
NonceLess(a, b) == a[1] < b[1] \/ (a[1] = b[1] /\ a[2] < b[2])
InInnerLoop == minerThread.pc \in {"search", "checking"}
ScanHashReturned == minerThread.pc = "search" /\ minerThread'.pc \in {"checking", "found"}
NewTemplate == minerThread.pc = "wait_network" /\ minerThread'.pc = "search"

\* C36: within one template the nonce is strictly greater after each call of
\* ScanHash than before it (so it never wraps around 2^32), it is changed by
\* nothing else (so no nonce is hashed twice: a call hashes the nonces after
\* the one it starts from), it never exceeds 0xFFFF0000, and the inner loop
\* is left after finitely many calls.
C36_NonceIncreasesBelowLimit ==
    /\ [][ScanHashReturned => NonceLess(minerThread.nNonce, minerThread'.nNonce)]_vars
    /\ [][minerThread'.nNonce # minerThread.nNonce =>
              \/ ScanHashReturned
              \/ NewTemplate /\ minerThread'.nNonce = <<0, 0>>]_vars
    /\ [](~NonceLess(<<NonceHalf - 1, 0>>, minerThread.nNonce))
    /\ (InInnerLoop /\ minerThread.nNonce[1] >= NonceHalf - MaxScan) ~> ~InInnerLoop

\* Reachable: the search has come to nonce 0xFFFF0000 with nothing else to
\* end it.
C36_Witness ==
    /\ minerThread.pc = "checking"
    /\ minerThread.nNonce = <<NonceHalf - 1, 0>>
    /\ ~minerThread.tipChanged /\ ~minerThread.mempoolUpdated /\ minerThread.nodeCount = 1
    /\ UpdateTimeReturn(minerThread.nTime, minerThread.nMedianTimePast, minerThread.clock) >= 0

(***************************************************************************)
(* The assertion of addPackageTxs (checked under SpecPow).                  *)
(***************************************************************************)
NoDuplicates(s) == \A i \in 1..Len(s), j \in 1..Len(s) : i # j => s[i] # s[j]

\* C37: the candidate of an iteration is not in the block (the assertion
\* holds), at every iteration mapModifiedTx holds no transaction that is in
\* the block, and no mempool transaction is in the block's vtx twice.
C37_CandidateNeverInBlock ==
    /\ Evaluating => CandidateIter \notin inBlock
    /\ asmPc \in {"loop", "done"} => (DOMAIN mapModifiedTx) \cap inBlock = {}
    /\ NoDuplicates(vtx)

\* Reachable: the mapTx iterator stands on an entry that went into the block
\* as the parent of an entry before it in the index.
C37_Witness ==
    /\ asmPc = "loop"
    /\ ~MapTxEnd
    /\ MapTxAtMi \in inBlock
    /\ \E k \in 1..(mi - 1) : MapTxAtMi \in mempool[mapTxByAncestorScore[k]].parents

(***************************************************************************)
(* The termination of addPackageTxs (checked under SpecTwoParentsFair: the  *)
(* thread that runs the loop is scheduled again and again).                 *)
(***************************************************************************)
AddPackageTxsStep ==
    \/ AddPackageSkip
    \/ AddPackageLoopEnd
    \/ AddPackageFeeStop
    \/ AddPackageTestPackageFails
    \/ AddPackageTestTransactionsFails
    \/ AddPackageAdmit

SpecTwoParentsFair == SpecTwoParents /\ WF_vars(AddPackageTxsStep)

\* One iteration of the loop that does not leave it.
LoopIteration == asmPc = "loop" /\ asmPc' = "loop"
IteratorAdvanced == mi' > mi
ModifiedEntryRemoved ==
    /\ DOMAIN mapModifiedTx' \subseteq DOMAIN mapModifiedTx
    /\ DOMAIN mapModifiedTx' # DOMAIN mapModifiedTx
NewTxInBlock ==
    /\ inBlock \subseteq inBlock'
    /\ inBlock' # inBlock
    /\ Len(vtx') > Len(vtx)

\* C38: addPackageTxs terminates: every iteration of its loop advances the
\* mapTx iterator, or removes an entry from mapModifiedTx and inserts none,
\* or adds at least one new transaction to the block, and a call that has
\* entered the loop leaves it.
C38_AddPackageTxsTerminates ==
    /\ [][LoopIteration => (IteratorAdvanced \/ ModifiedEntryRemoved \/ NewTxInBlock)]_vars
    /\ (asmPc = "loop") ~> (asmPc = "done")

\* Reachable: an entry that failed and was removed from mapModifiedTx is in
\* it again, put back by UpdatePackagesForAdded when a parent of it went into
\* the block.
C38_Witness ==
    /\ asmPc = "loop"
    /\ failedTx \cap DOMAIN mapModifiedTx # {}
    /\ inBlock # {}

(***************************************************************************)
(* The counts of the ranges of the bins (checked under SpecBin).            *)
(***************************************************************************)
\* C39: every range that BusyDwarves places in a bin holds at least one
\* dwarf, for every list of mature DCTs and every thread count.
C39_EveryRangeHoldsADwarf ==
    hivePc = "binned" => \A pos \in RangePositions : RangeAt(pos).count >= 1

\* Reachable: two bins for two DCTs, the first bin ending with a range of no
\* dwarf of the second DCT.
C39_EmptyRangeBehindFullBin ==
    /\ hivePc = "binned"
    /\ Len(BinnedDCTs) = 2
    /\ Len(dwarfBins) = 2
    /\ Len(dwarfBins[1]) = 2
    /\ dwarfBins[1][2].txid = BinnedDCTs[2].txid
    /\ dwarfBins[1][2].count = 0

\* A range without a dwarf is the last of its bin, is not in the last bin,
\* and starts the DCT it names (offset 0) behind the whole DCT before it.
C39_EmptyRangesOnlyBehindFullBins ==
    hivePc = "binned" =>
        \A pos \in RangePositions :
            RangeAt(pos).count = 0 =>
                /\ pos[2] = Len(dwarfBins[pos[1]])
                /\ pos[2] > 1
                /\ pos[1] < Len(dwarfBins)
                /\ RangeAt(pos).offset = 0

(***************************************************************************)
(* The termination of a check cycle of BusyDwarves (checked under           *)
(* SpecPollFair: the workers and BusyDwarves are threads the scheduler runs *)
(* again and again, like the watcher; which worker runs next is left open). *)
(***************************************************************************)
CheckBinStep ==
    \E b \in PollWorkers :
        \/ CheckBinPoll(b)
        \/ \E found \in BOOLEAN : CheckBinHashDwarf(b, found)
        \/ CheckBinWriteOut(b)

SpecPollFair == SpecPoll /\ WF_vars(CheckBinStep) /\ WF_vars(BusyDwarvesJoinPolled)

\* BusyDwarves is between the spawning of the threads and the end of its
\* joins.
InCheckCycle == minerThread.master \in {"join", "join_abort"}

\* C40: a check cycle ends: a worker hashes no dwarf beyond its bin,
\* BusyDwarves gets past its joins, and by then every worker and the watcher
\* have returned, with a solution found, with none, or with the tip changed.
C40_CheckCycleTerminates ==
    /\ [](\A b \in PollWorkers : minerThread.bins[b].i <= minerThread.bins[b].last)
    /\ [](~InCheckCycle =>
            /\ \A b \in PollWorkers : minerThread.bins[b].pc = "returned"
            /\ minerThread.watch.pc = "returned")
    /\ InCheckCycle ~> ~InCheckCycle

\* Reachable: no worker found a solution, the tip stayed, and the watcher
\* returned at the flag that BusyDwarves set before it joined it.
C40_Witness ==
    /\ minerThread.master = "inspect"
    /\ ~minerThread.solutionFound
    /\ ~minerThread.watch.fired
    /\ minerThread.tip = minerThread.height
    /\ \A b \in PollWorkers : minerThread.bins[b].i = minerThread.bins[b].last

\* Reachable: the cycle has ended with a solution, and by the watcher after
\* a change of the tip.
C40_EndedWithSolution == ~InCheckCycle /\ minerThread.solutionFound /\ ~minerThread.watch.fired
C40_EndedByTipChange == minerThread.master = "returned" /\ ~minerThread.solutionFound
====
